---- MODULE Spec2Model ----
(***************************************************************************)
(* Standings reconciliation core of skf-site (SimgridApiService):          *)
(* normalization of the upstream standings JSON, the HTML fallback scrape, *)
(* the merge of scraped race positions, and the getChampionshipStandings   *)
(* observable pipeline that orchestrates them.                             *)
(*                                                                         *)
(* JavaScript values are tagged records: [t |-> "null"], [t |-> "number",  *)
(* v |-> n], ...  Strings are sequences of characters, each character a    *)
(* one-token TLA+ string ("a", " ", or a named code point such as          *)
(* "e_acute" for U+00E9 and "COMB_ACUTE" for U+0301).                      *)
(***************************************************************************)
EXTENDS Integers, Sequences, FiniteSets, TLC

VARIABLES
    pc,          \* position of the getChampionshipStandings pipeline
    payload,     \* body of the upstream JSON response (a JS value)
    standings,   \* value produced by map(parseStandings)
    htmlFetched, \* TRUE once the HTML standings request has been issued
    htmlBody,    \* body of the HTML response
    outcome,     \* the notifications the subscriber has received, in order
    jsonError,   \* the error the upstream JSON request failed with
    mData,       \* merge harness: the normalized data handed to the merge, an
                 \* object the merge holds a reference to
    mDoc,        \* merge harness: the HTML document handed to the merge
    mOut,        \* merge harness: result of the merge
    mOut2,       \* merge harness: result of merging the same document again
    mMatch,      \* merge harness: the row index the merge found for each entry
    mSnap,       \* merge harness: the snapshot the merge scraped from the document
    mpc,         \* merge harness: position
    fIn,         \* function harness: the call, a function name and its arguments
    fOut,        \* function harness: what the call returned
    fpc,         \* function harness: position
    cmp,         \* ChampionshipStandingsComponent: its fields and signals
    calls,       \* the loadStandings calls with a request in flight, and the latest
    now,         \* Date.now(), in milliseconds
    ticks        \* how often the clock has advanced

pipeline == <<pc, payload, standings, htmlFetched, htmlBody, outcome, jsonError>>
harness == <<mData, mDoc, mOut, mOut2, mMatch, mSnap, mpc>>
unit == <<fIn, fOut, fpc>>
component == <<cmp, calls, now, ticks>>
vars == <<pipeline, harness, unit, component>>

----------------------------------------------------------------------------
(* JavaScript values *)

Undef == [t |-> "undefined"]
Null == [t |-> "null"]
NaN == [t |-> "NaN"]
Num(n) == [t |-> "number", v |-> n]
Str(s) == [t |-> "string", v |-> s]
Bool(b) == [t |-> "boolean", v |-> b]
Arr(s) == [t |-> "array", v |-> s]
Obj(f) == [t |-> "object", v |-> f]
EmptyObj == Obj(<<>>)

\* Array.isArray(x)
IsArray(x) == x.t = "array"

\* x == null (null or undefined): what ?? and ?. test
IsNullish(x) == x.t \in {"null", "undefined"}

\* x.k throws a TypeError exactly when x is null or undefined
AccessThrows(x) == IsNullish(x)

\* x.k for a named property k, when it does not throw
Get(x, k) == IF x.t = "object" /\ k \in DOMAIN x.v THEN x.v[k] ELSE Undef

\* x[i] for a zero-based index i: undefined out of range
At(x, i) == IF x.t = "array" /\ i + 1 \in DOMAIN x.v THEN x.v[i + 1] ELSE Undef

\* a ?? b
Coalesce(a, b) == IF IsNullish(a) THEN b ELSE a

----------------------------------------------------------------------------
(* Characters and strings *)

Alphabet == <<"a", "b", "c", "d", "e", "f", "g", "h", "i", "j", "k", "l", "m",
              "n", "o", "p", "q", "r", "s", "t", "u", "v", "w", "x", "y", "z">>
UpperAlphabet == <<"A", "B", "C", "D", "E", "F", "G", "H", "I", "J", "K", "L", "M",
                   "N", "O", "P", "Q", "R", "S", "T", "U", "V", "W", "X", "Y", "Z">>
Digits == <<"0", "1", "2", "3", "4", "5", "6", "7", "8", "9">>

Range(s) == {s[i] : i \in DOMAIN s}
IndexOf(s, c) == CHOOSE i \in DOMAIN s : s[i] = c

LowerLetters == Range(Alphabet)
UpperLetters == Range(UpperAlphabet)
DigitChars == Range(Digits)

IsLower(c) == c \in LowerLetters
IsUpper(c) == c \in UpperLetters
IsDigit(c) == c \in DigitChars
DigitVal(c) == IndexOf(Digits, c) - 1

\* precomposed letters (U+00E9, U+00C9) and the combining acute accent (U+0301)
IsPrecomposed(c) == c \in {"e_acute", "E_ACUTE"}
IsCombining(c) == c = "COMB_ACUTE"

\* \s of a regular expression, and what String.prototype.trim removes
IsSpace(c) == c \in {" ", "\t", "\n", "NBSP"}

RECURSIVE TrimStart(_)
TrimStart(s) == IF s # <<>> /\ IsSpace(Head(s)) THEN TrimStart(Tail(s)) ELSE s

RECURSIVE TrimEnd(_)
TrimEnd(s) ==
    IF s # <<>> /\ IsSpace(s[Len(s)]) THEN TrimEnd(SubSeq(s, 1, Len(s) - 1)) ELSE s

\* String.prototype.trim
Trim(s) == TrimEnd(TrimStart(s))

RECURSIVE DigitsValue(_)
DigitsValue(s) ==
    IF s = <<>> THEN 0 ELSE 10 * DigitsValue(SubSeq(s, 1, Len(s) - 1)) + DigitVal(s[Len(s)])

AllDigits(s) == s # <<>> /\ \A i \in DOMAIN s : IsDigit(s[i])

\* Number(s) for a string s: whitespace is trimmed, the empty string is 0, an
\* optionally signed run of decimal digits is its value, anything else is NaN
StringToNumber(s) ==
    LET t == Trim(s) IN
    IF t = <<>> THEN Num(0)
    ELSE IF AllDigits(t) THEN Num(DigitsValue(t))
    ELSE IF Head(t) = "-" /\ AllDigits(Tail(t)) THEN Num(0 - DigitsValue(Tail(t)))
    ELSE IF Head(t) = "+" /\ AllDigits(Tail(t)) THEN Num(DigitsValue(Tail(t)))
    ELSE NaN

\* Number(value)
RECURSIVE ToNumberJS(_)
ToNumberJS(x) ==
    CASE x.t = "number" -> x
      [] x.t = "null" -> Num(0)
      [] x.t = "boolean" -> IF x.v THEN Num(1) ELSE Num(0)
      [] x.t = "string" -> StringToNumber(x.v)
      [] x.t = "array" ->
            IF Len(x.v) = 0 THEN Num(0)
            ELSE IF Len(x.v) = 1 /\ x.v[1].t \in {"number", "string", "null", "undefined"}
                 THEN IF IsNullish(x.v[1]) THEN Num(0) ELSE ToNumberJS(x.v[1])
                 ELSE NaN
      [] OTHER -> NaN

----------------------------------------------------------------------------
(* Primitive parsers *)

toNumber(value) ==
    LET parsed == ToNumberJS(value) IN
    IF parsed.t = "number" THEN parsed.v ELSE 0

toNullableNumber(value) ==
    LET parsed == ToNumberJS(value) IN
    IF parsed.t = "number" THEN parsed ELSE Null

toText(value, fallback) ==
    IF value.t = "string" /\ Len(Trim(value.v)) > 0 THEN value.v ELSE fallback

toNullableText(value) ==
    IF value.t = "string" /\ Len(Trim(value.v)) > 0 THEN value ELSE Null

\* Boolean(value)
ToBooleanJS(x) ==
    CASE x.t \in {"undefined", "null", "NaN"} -> FALSE
      [] x.t = "boolean" -> x.v
      [] x.t = "number" -> x.v # 0
      [] x.t = "string" -> x.v # <<>>
      [] OTHER -> TRUE

----------------------------------------------------------------------------
(* Name normalization and comparison *)

\* String.prototype.normalize('NFKD') of one character
NfkdChar(c) ==
    CASE c = "e_acute" -> <<"e", "COMB_ACUTE">>
      [] c = "E_ACUTE" -> <<"E", "COMB_ACUTE">>
      [] c = "NBSP" -> <<" ">>
      [] OTHER -> <<c>>

RECURSIVE Nfkd(_)
Nfkd(s) == IF s = <<>> THEN <<>> ELSE NfkdChar(Head(s)) \o Nfkd(Tail(s))

ToLowerChar(c) ==
    CASE IsUpper(c) -> Alphabet[IndexOf(UpperAlphabet, c)]
      [] c = "E_ACUTE" -> "e_acute"
      [] OTHER -> c

\* String.prototype.toLowerCase
ToLowerCase(s) == [i \in DOMAIN s |-> ToLowerChar(s[i])]

\* \p{L} or \p{N}
IsLetterOrNumber(c) == IsLower(c) \/ IsUpper(c) \/ IsDigit(c) \/ IsPrecomposed(c)

\* replace(/[^\p{L}\p{N}]+/gu, ' '): every maximal run of other characters
\* becomes one space
RECURSIVE ReplaceOtherRuns(_)
ReplaceOtherRuns(s) ==
    IF s = <<>> THEN <<>>
    ELSE IF IsLetterOrNumber(Head(s)) THEN <<Head(s)>> \o ReplaceOtherRuns(Tail(s))
    ELSE IF Len(s) > 1 /\ ~IsLetterOrNumber(s[2]) THEN ReplaceOtherRuns(Tail(s))
    ELSE <<" ">> \o ReplaceOtherRuns(Tail(s))

\* replace(/\s+/g, ' ')
RECURSIVE CollapseSpaces(_)
CollapseSpaces(s) ==
    IF s = <<>> THEN <<>>
    ELSE IF ~IsSpace(Head(s)) THEN <<Head(s)>> \o CollapseSpaces(Tail(s))
    ELSE IF Len(s) > 1 /\ IsSpace(s[2]) THEN CollapseSpaces(Tail(s))
    ELSE <<" ">> \o CollapseSpaces(Tail(s))

\* faulty variant of normalizeName: the other characters are replaced before
\* the string is decomposed and lowercased
normalizeName_ReplaceFirst(value) ==
    CollapseSpaces(Trim(ToLowerCase(Nfkd(ReplaceOtherRuns(value)))))

normalizeName(value) ==
    CollapseSpaces(Trim(ReplaceOtherRuns(ToLowerCase(Nfkd(value)))))

\* Collation weights of String.prototype.localeCompare (root collation): the
\* primary weight orders white space and punctuation before digits before
\* letters and ignores case and accents; the secondary weight orders an
\* unaccented letter before an accented one; the tertiary weight orders lower
\* case before upper case.
PrimaryWeight(c) ==
    CASE IsLower(c) -> 20 + IndexOf(Alphabet, c)
      [] IsUpper(c) -> 20 + IndexOf(UpperAlphabet, c)
      [] IsPrecomposed(c) -> 20 + IndexOf(Alphabet, "e")
      [] IsDigit(c) -> 10 + DigitVal(c)
      [] IsSpace(c) -> 1
      [] OTHER -> 2

SecondaryWeight(c) == IF IsPrecomposed(c) \/ IsCombining(c) THEN 1 ELSE 0

TertiaryWeight(c) == IF IsUpper(c) \/ c = "E_ACUTE" THEN 1 ELSE 0

\* the characters that carry a primary weight (a combining mark carries none)
RECURSIVE PrimaryKey(_)
PrimaryKey(s) ==
    IF s = <<>> THEN <<>>
    ELSE IF IsCombining(Head(s)) THEN PrimaryKey(Tail(s))
    ELSE <<PrimaryWeight(Head(s))>> \o PrimaryKey(Tail(s))

SecondaryKey(s) == [i \in DOMAIN s |-> SecondaryWeight(s[i])]
TertiaryKey(s) == [i \in DOMAIN s |-> TertiaryWeight(s[i])]

\* lexicographic comparison of two sequences of numbers: -1, 0 or 1
RECURSIVE LexCompare(_, _)
LexCompare(a, b) ==
    IF a = <<>> /\ b = <<>> THEN 0
    ELSE IF a = <<>> THEN 0 - 1
    ELSE IF b = <<>> THEN 1
    ELSE IF Head(a) < Head(b) THEN 0 - 1
    ELSE IF Head(a) > Head(b) THEN 1
    ELSE LexCompare(Tail(a), Tail(b))

\* a.localeCompare(b): negative, zero or positive
localeCompare(a, b) ==
    LET p == LexCompare(PrimaryKey(a), PrimaryKey(b))
        s == LexCompare(SecondaryKey(a), SecondaryKey(b))
        t == LexCompare(TertiaryKey(a), TertiaryKey(b))
    IN IF p # 0 THEN p ELSE IF s # 0 THEN s ELSE t

\* a - b on numbers extended with +Infinity (a position of null): its sign
Sign(n) == IF n < 0 THEN 0 - 1 ELSE IF n > 0 THEN 1 ELSE 0

\* faulty variant of sortStandings: the score tie-break is ascending
sortStandings_ScoreAscending(a, b) ==
    IF a.position # b.position
    THEN IF a.position.t = "null" THEN 1
         ELSE IF b.position.t = "null" THEN 0 - 1
         ELSE Sign(a.position.v - b.position.v)
    ELSE IF a.score # b.score THEN Sign(a.score - b.score)
    ELSE localeCompare(a.displayName, b.displayName)

sortStandings(a, b) ==
    IF a.position # b.position
    THEN IF a.position.t = "null" THEN 1
         ELSE IF b.position.t = "null" THEN 0 - 1
         ELSE Sign(a.position.v - b.position.v)
    ELSE IF a.score # b.score THEN Sign(b.score - a.score)
    ELSE localeCompare(a.displayName, b.displayName)

\* Array.prototype.sort((a, b) => this.sortStandings(a, b)): a stable sort
\* (each element goes after the last one that does not compare greater)
RECURSIVE InsertStanding(_, _)
InsertStanding(s, x) ==
    IF s = <<>> THEN <<x>>
    ELSE IF sortStandings(s[Len(s)], x) <= 0 THEN Append(s, x)
    ELSE Append(InsertStanding(SubSeq(s, 1, Len(s) - 1), x), s[Len(s)])

RECURSIVE SortStandingEntries(_)
SortStandingEntries(s) ==
    IF s = <<>> THEN <<>>
    ELSE InsertStanding(SortStandingEntries(SubSeq(s, 1, Len(s) - 1)), s[Len(s)])

----------------------------------------------------------------------------
(* Upstream response normalizer.  A function that can raise returns         *)
(* Ok(value) or Threw (a TypeError raised by a property access on null).    *)

Ok(v) == [threw |-> FALSE, val |-> v]
Threw == [threw |-> TRUE]

UnknownDriver ==
    <<"U", "n", "k", "n", "o", "w", "n", " ", "d", "r", "i", "v", "e", "r">>
RaceLabel == <<"R", "a", "c", "e">>

\* races[index]?.id ?? null, for a zero-based index
RaceIdAt(races, index) ==
    IF index + 1 \in DOMAIN races THEN Num(races[index + 1].id) ELSE Null

\* one item of parseRaces' value.map
parseRaceItem(race) ==
    [id |-> toNumber(Get(race, "id")),
     displayName |->
        toText(Coalesce(Get(race, "display_name"), Get(race, "race_name")), RaceLabel),
     startsAt |-> toNullableText(Get(race, "starts_at")),
     resultsAvailable |-> ToBooleanJS(Get(race, "results_available")),
     ended |-> ToBooleanJS(Get(race, "ended"))]

parseRaces(value) ==
    IF ~IsArray(value) THEN Ok(<<>>)
    ELSE IF \E i \in DOMAIN value.v : AccessThrows(value.v[i]) THEN Threw
    ELSE Ok([i \in DOMAIN value.v |-> parseRaceItem(value.v[i])])

\* faulty variant of parseRaceResultItem: a bare number is taken as the points
\* of the race
parseRaceResultItem_NumberIsPoints(item, index, races) ==
    IF item.t = "number"
    THEN [raceId |-> RaceIdAt(races, index),
          raceIndex |-> index,
          points |-> toNullableNumber(item),
          position |-> Null]
    ELSE [raceId |-> toNullableNumber(Coalesce(Get(item, "race_id"), RaceIdAt(races, index))),
          raceIndex |-> index,
          points |-> toNullableNumber(Coalesce(Get(item, "points"), Null)),
          position |-> toNullableNumber(Coalesce(Get(item, "position"), Null))]

\* one item of parseRaceResults' value.map, at zero-based index
parseRaceResultItem(item, index, races) ==
    IF item.t = "number"
    THEN [raceId |-> RaceIdAt(races, index),
          raceIndex |-> index,
          points |-> Null,
          position |-> toNullableNumber(item)]
    ELSE LET pointsCandidate ==
                 Coalesce(Get(item, "points"),
                 Coalesce(Get(item, "championship_points"),
                 Coalesce(Get(item, "score"),
                 Coalesce(Get(item, "championship_score"), Null))))
             raceIdCandidate ==
                 Coalesce(Get(item, "race_id"),
                 Coalesce(Get(item, "raceId"),
                 Coalesce(Get(item, "id"),
                 Coalesce(RaceIdAt(races, index), Null))))
             positionCandidate ==
                 Coalesce(Get(item, "position"),
                 Coalesce(Get(item, "position_cache"),
                 Coalesce(Get(item, "rank"), Null)))
         IN [raceId |-> toNullableNumber(raceIdCandidate),
             raceIndex |-> index,
             points |-> toNullableNumber(pointsCandidate),
             position |-> toNullableNumber(positionCandidate)]

parseRaceResults(value, races) ==
    IF ~IsArray(value) THEN Ok(<<>>)
    ELSE IF \E i \in DOMAIN value.v :
                value.v[i].t # "number" /\ AccessThrows(value.v[i]) THEN Threw
    ELSE Ok([i \in DOMAIN value.v |-> parseRaceResultItem(value.v[i], i - 1, races)])

\* the partialResults constant of parseStandingEntry
PartialResults(entry) ==
    IF IsArray(Get(entry, "partial_standings")) /\ Len(Get(entry, "partial_standings").v) > 0
    THEN Get(entry, "partial_standings")
    ELSE Get(entry, "overall_partial_standings")

\* entry.participant?.country_code
CountryCodeOf(entry) ==
    IF IsNullish(Get(entry, "participant")) THEN Undef
    ELSE Get(Get(entry, "participant"), "country_code")

parseStandingEntry(entry, races) ==
    IF AccessThrows(entry) THEN Threw
    ELSE LET results == parseRaceResults(PartialResults(entry), races) IN
         IF results.threw THEN Threw
         ELSE Ok([id |-> toNumber(Get(entry, "id")),
                  position |-> toNullableNumber(Get(entry, "position_cache")),
                  displayName |-> toText(Get(entry, "display_name"), UnknownDriver),
                  countryCode |-> toText(CountryCodeOf(entry), <<>>),
                  car |-> toText(Get(entry, "car"), <<>>),
                  points |-> toNumber(Get(entry, "championship_points")),
                  penalties |-> toNumber(Get(entry, "championship_penalties")),
                  score |-> toNumber(Get(entry, "championship_score")),
                  raceResults |-> results.val])

EmptyStandings == [entries |-> <<>>, races |-> <<>>]

\* faulty variant of parseStandings: the Array.isArray guard is missing, so
\* payload[1] is read from whatever the payload is
parseStandings_NoArrayGuard(p) ==
    IF AccessThrows(p) THEN Threw
    ELSE LET races == parseRaces(At(p, 1))
             entriesRaw == IF IsArray(At(p, 0)) THEN At(p, 0).v ELSE <<>>
         IN IF races.threw THEN Threw
            ELSE LET mapped == [i \in DOMAIN entriesRaw |->
                                   parseStandingEntry(entriesRaw[i], races.val)]
                 IN IF \E i \in DOMAIN mapped : mapped[i].threw THEN Threw
                    ELSE Ok([entries |->
                                SortStandingEntries([i \in DOMAIN mapped |-> mapped[i].val]),
                             races |-> races.val])

parseStandings(p) ==
    IF ~IsArray(p) THEN Ok(EmptyStandings)
    ELSE LET races == parseRaces(At(p, 1))
             entriesRaw == IF IsArray(At(p, 0)) THEN At(p, 0).v ELSE <<>>
         IN IF races.threw THEN Threw
            ELSE LET mapped == [i \in DOMAIN entriesRaw |->
                                   parseStandingEntry(entriesRaw[i], races.val)]
                 IN IF \E i \in DOMAIN mapped : mapped[i].threw THEN Threw
                    ELSE Ok([entries |->
                                SortStandingEntries([i \in DOMAIN mapped |-> mapped[i].val]),
                             races |-> races.val])

\* faulty variant of hasRacePositions: entries.every instead of entries.some
hasRacePositions_Every(data) ==
    \A i \in DOMAIN data.entries :
        \E j \in DOMAIN data.entries[i].raceResults :
            data.entries[i].raceResults[j].position # Null

hasRacePositions(data) ==
    \E i \in DOMAIN data.entries :
        \E j \in DOMAIN data.entries[i].raceResults :
            data.entries[i].raceResults[j].position # Null

----------------------------------------------------------------------------
(* HTML micro-parsers.  Text taken from the page is a sequence of           *)
(* characters in which "TAG" stands for one markup tag (<...>), "&nbsp;"    *)
(* and "&#160;" for those entities, "ZWSP" for a zero-width character of    *)
(* U+200B..U+200F or U+FEFF and "EM_DASH" for U+2014.                       *)

RECURSIVE ReplaceChars(_, _, _)
ReplaceChars(s, from, to) ==
    IF s = <<>> THEN <<>>
    ELSE (IF Head(s) \in from THEN to ELSE <<Head(s)>>) \o ReplaceChars(Tail(s), from, to)

stripHtml(value) ==
    Trim(CollapseSpaces(
        ReplaceChars(ReplaceChars(ReplaceChars(value, {"TAG"}, <<" ">>),
                                  {"&nbsp;"}, <<" ">>),
                     {"&#160;"}, <<" ">>)))

\* the longest run of digits at the start of s
RECURSIVE LeadingDigits(_)
LeadingDigits(s) ==
    IF s # <<>> /\ IsDigit(Head(s)) THEN <<Head(s)>> \o LeadingDigits(Tail(s)) ELSE <<>>

\* s.match(/^-?\d+/): the matched text, or <<>> when there is no match
LeadingInt(s) ==
    IF s # <<>> /\ Head(s) = "-" /\ LeadingDigits(Tail(s)) # <<>>
    THEN <<"-">> \o LeadingDigits(Tail(s))
    ELSE LeadingDigits(s)

\* s.match(/-?\d+/): the leftmost match, or <<>> when there is none
RECURSIVE FirstInt(_)
FirstInt(s) ==
    IF s = <<>> THEN <<>>
    ELSE IF LeadingInt(s) # <<>> THEN LeadingInt(s)
    ELSE FirstInt(Tail(s))

\* value is a string or null; "" is falsy
parseHtmlNumeric(value) ==
    IF value.t # "string" \/ value.v = <<>> THEN Null
    ELSE IF FirstInt(value.v) # <<>> THEN toNullableNumber(Str(FirstInt(value.v)))
    ELSE Null

\* faulty variant of parseHtmlRacePosition: the test for an empty cell or a
\* dash is missing and the cleaned text is converted as a whole
parseHtmlRacePosition_NoDashTest(value) ==
    IF value.t # "string" \/ value.v = <<>> THEN Null
    ELSE toNullableNumber(
            Str(Trim(CollapseSpaces(ReplaceChars(value.v, {"ZWSP"}, <<>>)))))

\* faulty variant of parseHtmlRacePosition: the number is looked for anywhere
\* in the cleaned text, as parseHtmlNumeric does
parseHtmlRacePosition_FirstAnywhere(value) ==
    IF value.t # "string" \/ value.v = <<>> THEN Null
    ELSE LET normalized == Trim(CollapseSpaces(ReplaceChars(value.v, {"ZWSP"}, <<>>))) IN
         IF Len(normalized) = 0 \/ normalized = <<"-">> \/ normalized = <<"EM_DASH">>
         THEN Null
         ELSE IF FirstInt(normalized) # <<>>
              THEN toNullableNumber(Str(FirstInt(normalized)))
              ELSE Null

parseHtmlRacePosition(value) ==
    IF value.t # "string" \/ value.v = <<>> THEN Null
    ELSE LET normalized == Trim(CollapseSpaces(ReplaceChars(value.v, {"ZWSP"}, <<>>))) IN
         IF Len(normalized) = 0 \/ normalized = <<"-">> \/ normalized = <<"EM_DASH">>
         THEN Null
         ELSE IF LeadingInt(normalized) # <<>>
              THEN toNullableNumber(Str(LeadingInt(normalized)))
              ELSE Null

----------------------------------------------------------------------------
(* HTML standings scraper.  The page is a record of what the scraper's      *)
(* regular expressions find in it:                                           *)
(*   table    - a <table> with the table-results and table-v2 classes,      *)
(*   raceIds  - the digits of each race_id=<digits> of that table, in order,*)
(*   rows     - each <tr>...</tr> of that table: entrant (the row text      *)
(*              contains 'entrant-name'), name (text of the entrant-name    *)
(*              anchor, Undef when the pattern does not match), position    *)
(*              (text of the result-position <strong>, Undef when absent),  *)
(*              cells (text of each show_positions span, in order).         *)

HtmlPage(table, raceIds, rows) ==
    [t |-> "string", table |-> table, raceIds |-> raceIds, rows |-> rows]

\* the for-loop over race_id matches: first occurrence of each numeric id
RECURSIVE RaceColumnsOf(_)
RaceColumnsOf(ids) ==
    IF ids = <<>> THEN <<>>
    ELSE LET before == RaceColumnsOf(SubSeq(ids, 1, Len(ids) - 1))
             raceId == toNullableNumber(Str(ids[Len(ids)]))
         IN IF raceId = Null \/ \E i \in DOMAIN before : before[i].raceId = raceId
            THEN before
            ELSE Append(before, [raceId |-> raceId, raceIndex |-> Len(before)])

\* the row object pushed for one <tr> that contains 'entrant-name'
HtmlRowOf(tr, raceColumns) ==
    [normalizedName |->
        normalizeName(stripHtml(IF tr.name.t = "string" THEN tr.name.v ELSE <<>>)),
     position |-> parseHtmlNumeric(Coalesce(tr.position, Null)),
     racePositions |->
        [i \in DOMAIN raceColumns |->
            parseHtmlRacePosition(
                Str(stripHtml(IF i \in DOMAIN tr.cells THEN tr.cells[i] ELSE <<>>)))]]

RECURSIVE HtmlRowsOf(_, _)
HtmlRowsOf(trs, raceColumns) ==
    IF trs = <<>> THEN <<>>
    ELSE LET before == HtmlRowsOf(SubSeq(trs, 1, Len(trs) - 1), raceColumns)
             tr == trs[Len(trs)]
         IN IF ~tr.entrant THEN before ELSE Append(before, HtmlRowOf(tr, raceColumns))

\* faulty variant of extractHtmlStandings: the test for rows is missing
extractHtmlStandings_NoRowTest(html) ==
    IF ~html.table THEN Null
    ELSE [raceColumns |-> RaceColumnsOf(html.raceIds),
          rows |-> HtmlRowsOf(html.rows, RaceColumnsOf(html.raceIds))]

\* null (Null) or a snapshot [raceColumns, rows]; html is a string here
extractHtmlStandings(html) ==
    IF ~html.table THEN Null
    ELSE LET raceColumns == RaceColumnsOf(html.raceIds)
             rows == HtmlRowsOf(html.rows, raceColumns)
         IN IF Len(rows) > 0 THEN [raceColumns |-> raceColumns, rows |-> rows] ELSE Null

----------------------------------------------------------------------------
(* Reconciliation merger *)

\* String(n) for a natural number n
RECURSIVE NatToString(_)
NatToString(n) ==
    IF n < 10 THEN <<Digits[n + 1]>>
    ELSE NatToString(n \div 10) \o <<Digits[(n % 10) + 1]>>

\* the record pushed for race column `column` at zero-based index
SyntheticRace(column, index) ==
    [id |-> IF column.raceId = Null THEN 0 - (index + 1) ELSE column.raceId.v,
     displayName |-> RaceLabel \o <<" ">> \o NatToString(index + 1),
     startsAt |-> Null,
     resultsAvailable |-> FALSE,
     ended |-> FALSE]

\* faulty variant of mergeRaces: the length checks are missing, so a race is
\* appended for every scraped column
mergeRaces_AlwaysAppends(current, raceColumns) ==
    current \o [i \in 1..Len(raceColumns) |-> SyntheticRace(raceColumns[i], i - 1)]

\* faulty variant of mergeRaces: merged starts empty, not as a copy of current
mergeRaces_StartsEmpty(current, raceColumns) ==
    IF Len(raceColumns) <= Len(current) THEN current
    ELSE [i \in 1..Len(raceColumns) |-> SyntheticRace(raceColumns[i], i - 1)]

mergeRaces(current, raceColumns) ==
    IF Len(raceColumns) <= Len(current) THEN current
    ELSE [i \in 1..Len(raceColumns) |->
             IF i <= Len(current) THEN current[i]
             ELSE SyntheticRace(raceColumns[i], i - 1)]

\* rows.findIndex(pred) over zero-based indexes: the least one, or -1
FindIndex(S) == IF S = {} THEN 0 - 1 ELSE CHOOSE i \in S : \A j \in S : i <= j

\* faulty variant of findHtmlRowIndex: the match by name does not look at
\* the used rows
findHtmlRowIndex_IgnoresUsed(entry, entryIndex, rows, usedRows) ==
    LET byName == FindIndex({i \in 0..(Len(rows) - 1) :
                     rows[i + 1].normalizedName = normalizeName(entry.displayName)})
        byPosition == FindIndex({i \in 0..(Len(rows) - 1) :
                     i \notin usedRows /\ rows[i + 1].position = entry.position})
    IN IF byName >= 0 THEN byName
       ELSE IF entry.position # Null /\ byPosition >= 0 THEN byPosition
       ELSE IF entryIndex < Len(rows) /\ entryIndex \notin usedRows THEN entryIndex
       ELSE 0 - 1

\* faulty variant of findHtmlRowIndex: the position is tried before the name
findHtmlRowIndex_PositionFirst(entry, entryIndex, rows, usedRows) ==
    LET byName == FindIndex({i \in 0..(Len(rows) - 1) :
                     i \notin usedRows
                     /\ rows[i + 1].normalizedName = normalizeName(entry.displayName)})
        byPosition == FindIndex({i \in 0..(Len(rows) - 1) :
                     i \notin usedRows /\ rows[i + 1].position = entry.position})
    IN IF entry.position # Null /\ byPosition >= 0 THEN byPosition
       ELSE IF byName >= 0 THEN byName
       ELSE IF entryIndex < Len(rows) /\ entryIndex \notin usedRows THEN entryIndex
       ELSE 0 - 1

\* faulty variant of findHtmlRowIndex: the row at the entry's own index is
\* not tried
findHtmlRowIndex_NoFallback(entry, entryIndex, rows, usedRows) ==
    LET byName == FindIndex({i \in 0..(Len(rows) - 1) :
                     i \notin usedRows
                     /\ rows[i + 1].normalizedName = normalizeName(entry.displayName)})
        byPosition == FindIndex({i \in 0..(Len(rows) - 1) :
                     i \notin usedRows /\ rows[i + 1].position = entry.position})
    IN IF byName >= 0 THEN byName
       ELSE IF entry.position # Null /\ byPosition >= 0 THEN byPosition
       ELSE 0 - 1

findHtmlRowIndex(entry, entryIndex, rows, usedRows) ==
    LET byName == FindIndex({i \in 0..(Len(rows) - 1) :
                     i \notin usedRows
                     /\ rows[i + 1].normalizedName = normalizeName(entry.displayName)})
        byPosition == FindIndex({i \in 0..(Len(rows) - 1) :
                     i \notin usedRows /\ rows[i + 1].position = entry.position})
    IN IF byName >= 0 THEN byName
       ELSE IF entry.position # Null /\ byPosition >= 0 THEN byPosition
       ELSE IF entryIndex < Len(rows) /\ entryIndex \notin usedRows THEN entryIndex
       ELSE 0 - 1

\* The Map byRaceIndex as a sequence of <<key, value>> pairs in insertion
\* order; Map.set replaces the value of a present key in place.
MapHas(m, k) == \E i \in DOMAIN m : m[i][1] = k
MapGet(m, k) == m[CHOOSE i \in DOMAIN m : m[i][1] = k][2]
MapSet(m, k, v) ==
    IF MapHas(m, k) THEN [i \in DOMAIN m |-> IF m[i][1] = k THEN <<k, v>> ELSE m[i]]
    ELSE Append(m, <<k, v>>)

\* current.forEach((result) => byRaceIndex.set(result.raceIndex, result))
RECURSIVE MapOfResults(_)
MapOfResults(current) ==
    IF current = <<>> THEN <<>>
    ELSE MapSet(MapOfResults(SubSeq(current, 1, Len(current) - 1)),
                current[Len(current)].raceIndex, current[Len(current)])

\* faulty variant of MergePosition: the scraped position replaces the existing
\* one
MergePosition_ScrapedWins(m, position, raceIndex, races) ==
    IF MapHas(m, raceIndex)
    THEN LET existing == MapGet(m, raceIndex) IN
         MapSet(m, raceIndex,
                [existing EXCEPT
                    !.raceId = Coalesce(existing.raceId,
                                        Coalesce(RaceIdAt(races, raceIndex), Null)),
                    !.position = Coalesce(position, existing.position)])
    ELSE IF position = Null THEN m
    ELSE MapSet(m, raceIndex,
                [raceId |-> Coalesce(RaceIdAt(races, raceIndex), Null),
                 raceIndex |-> raceIndex,
                 points |-> Null,
                 position |-> position])

\* faulty variant of MergePosition: a null scraped position is added as well
MergePosition_AddsNull(m, position, raceIndex, races) ==
    IF MapHas(m, raceIndex)
    THEN LET existing == MapGet(m, raceIndex) IN
         MapSet(m, raceIndex,
                [existing EXCEPT
                    !.raceId = Coalesce(existing.raceId,
                                        Coalesce(RaceIdAt(races, raceIndex), Null)),
                    !.position = Coalesce(existing.position, position)])
    ELSE MapSet(m, raceIndex,
                [raceId |-> Coalesce(RaceIdAt(races, raceIndex), Null),
                 raceIndex |-> raceIndex,
                 points |-> Null,
                 position |-> position])

\* one iteration of htmlRacePositions.forEach, at zero-based raceIndex
MergePosition(m, position, raceIndex, races) ==
    IF MapHas(m, raceIndex)
    THEN LET existing == MapGet(m, raceIndex) IN
         MapSet(m, raceIndex,
                [existing EXCEPT
                    !.raceId = Coalesce(existing.raceId,
                                        Coalesce(RaceIdAt(races, raceIndex), Null)),
                    !.position = Coalesce(existing.position, position)])
    ELSE IF position = Null THEN m
    ELSE MapSet(m, raceIndex,
                [raceId |-> Coalesce(RaceIdAt(races, raceIndex), Null),
                 raceIndex |-> raceIndex,
                 points |-> Null,
                 position |-> position])

\* the first n iterations of htmlRacePositions.forEach
RECURSIVE MergePositions(_, _, _, _)
MergePositions(m, htmlRacePositions, n, races) ==
    IF n = 0 THEN m
    ELSE MergePosition(MergePositions(m, htmlRacePositions, n - 1, races),
                       htmlRacePositions[n], n - 1, races)

\* faulty variant of InsertResult: the comparator is b.raceIndex - a.raceIndex
RECURSIVE InsertResult_Descending(_, _)
InsertResult_Descending(s, x) ==
    IF s = <<>> THEN <<x>>
    ELSE IF x.raceIndex - s[Len(s)].raceIndex <= 0 THEN Append(s, x)
    ELSE Append(InsertResult_Descending(SubSeq(s, 1, Len(s) - 1), x), s[Len(s)])

\* sort((a, b) => a.raceIndex - b.raceIndex), a stable sort
RECURSIVE InsertResult(_, _)
InsertResult(s, x) ==
    IF s = <<>> THEN <<x>>
    ELSE IF s[Len(s)].raceIndex - x.raceIndex <= 0 THEN Append(s, x)
    ELSE Append(InsertResult(SubSeq(s, 1, Len(s) - 1), x), s[Len(s)])

RECURSIVE SortResults(_)
SortResults(s) ==
    IF s = <<>> THEN <<>>
    ELSE InsertResult(SortResults(SubSeq(s, 1, Len(s) - 1)), s[Len(s)])

mergeRaceResults(current, htmlRacePositions, races) ==
    LET byRaceIndex == MergePositions(MapOfResults(current), htmlRacePositions,
                                      Len(htmlRacePositions), races)
    IN SortResults([i \in DOMAIN byRaceIndex |-> byRaceIndex[i][2]])

\* rowIndex of each of the first n entries, in the order data.entries.map
\* visits them; usedRowIndexes holds the rows matched so far
RECURSIVE RowIndexes(_, _, _)
RowIndexes(entries, rows, n) ==
    IF n = 0 THEN <<>>
    ELSE LET before == RowIndexes(entries, rows, n - 1)
             usedRowIndexes == {before[i] : i \in DOMAIN before} \ {0 - 1}
         IN Append(before, findHtmlRowIndex(entries[n], n - 1, rows, usedRowIndexes))

\* faulty variant of MergeSnapshot: an unusable snapshot yields an empty result
MergeSnapshot_EmptyOnReject(data, snapshot) ==
    IF snapshot = Null \/ Len(snapshot.raceColumns) = 0 \/ Len(snapshot.rows) = 0
    THEN EmptyStandings
    ELSE LET races == mergeRaces(data.races, snapshot.raceColumns)
             rowIndex == RowIndexes(data.entries, snapshot.rows, Len(data.entries))
         IN [entries |->
                [i \in DOMAIN data.entries |->
                    IF rowIndex[i] < 0 THEN data.entries[i]
                    ELSE [data.entries[i] EXCEPT
                            !.raceResults =
                                mergeRaceResults(data.entries[i].raceResults,
                                    snapshot.rows[rowIndex[i] + 1].racePositions, races)]],
             races |-> races]

\* faulty variant of CurrentAfterMergeRaces: the synthetic races are pushed
\* onto current itself
CurrentAfterMergeRaces_PushesOntoCurrent(current, raceColumns) ==
    mergeRaces(current, raceColumns)

\* The array current after mergeRaces(current, raceColumns) has returned:
\* merged is a copy ([...current]) and every push is on merged.
CurrentAfterMergeRaces(current, raceColumns) == current

\* The array current, with its elements, after mergeRaceResults has returned:
\* byRaceIndex is a new Map, an existing result is replaced in the Map by a
\* new object ({...existing}), and the sort is on a new array.
CurrentAfterMergeRaceResults(current, htmlRacePositions, races) == current

\* The object data, with everything it refers to, after
\* mergeHtmlRacePositions has returned: entries.map builds a new array and a
\* matched entry is copied ({...entry, raceResults}).
DataAfterMerge(data, snapshot) ==
    IF snapshot = Null \/ Len(snapshot.raceColumns) = 0 \/ Len(snapshot.rows) = 0
    THEN data
    ELSE LET races == mergeRaces(data.races, snapshot.raceColumns)
             rowIndex == RowIndexes(data.entries, snapshot.rows, Len(data.entries))
         IN [entries |->
                [i \in DOMAIN data.entries |->
                    IF rowIndex[i] < 0 THEN data.entries[i]
                    ELSE [data.entries[i] EXCEPT
                            !.raceResults =
                                CurrentAfterMergeRaceResults(data.entries[i].raceResults,
                                    snapshot.rows[rowIndex[i] + 1].racePositions, races)]],
             races |-> CurrentAfterMergeRaces(data.races, snapshot.raceColumns)]

\* faulty variant of MergeSnapshot: a matched entry takes the position of
\* its row
MergeSnapshot_TakesRowPosition(data, snapshot) ==
    IF snapshot = Null \/ Len(snapshot.raceColumns) = 0 \/ Len(snapshot.rows) = 0
    THEN data
    ELSE LET races == mergeRaces(data.races, snapshot.raceColumns)
             rowIndex == RowIndexes(data.entries, snapshot.rows, Len(data.entries))
         IN [entries |->
                [i \in DOMAIN data.entries |->
                    IF rowIndex[i] < 0 THEN data.entries[i]
                    ELSE [data.entries[i] EXCEPT
                            !.position = snapshot.rows[rowIndex[i] + 1].position,
                            !.raceResults =
                                mergeRaceResults(data.entries[i].raceResults,
                                    snapshot.rows[rowIndex[i] + 1].racePositions, races)]],
             races |-> races]

\* the merge once the page has been scraped: snapshot is Null or a snapshot
MergeSnapshot(data, snapshot) ==
    IF snapshot = Null \/ Len(snapshot.raceColumns) = 0 \/ Len(snapshot.rows) = 0
    THEN data
    ELSE LET races == mergeRaces(data.races, snapshot.raceColumns)
             rowIndex == RowIndexes(data.entries, snapshot.rows, Len(data.entries))
         IN [entries |->
                [i \in DOMAIN data.entries |->
                    IF rowIndex[i] < 0 THEN data.entries[i]
                    ELSE [data.entries[i] EXCEPT
                            !.raceResults =
                                mergeRaceResults(data.entries[i].raceResults,
                                    snapshot.rows[rowIndex[i] + 1].racePositions, races)]],
             races |-> races]

\* html.match raises a TypeError when the response body is not a string
mergeHtmlRacePositions(data, html) ==
    IF html.t # "string" THEN Threw
    ELSE Ok(MergeSnapshot(data, extractHtmlStandings(html)))

----------------------------------------------------------------------------
(* Inputs of getChampionshipStandings *)

MaxEntries == 3

\* every sequence over S of length at most n
RECURSIVE SeqsUpTo(_, _)
SeqsUpTo(S, n) ==
    IF n = 0 THEN {<<>>}
    ELSE LET shorter == SeqsUpTo(S, n - 1) IN
         shorter \cup {Append(s, x) : s \in {q \in shorter : Len(q) = n - 1}, x \in S}

NameAl == <<"A", "l">>
NameAlLower == <<"a", "l">>
NameBo == <<"B", "o">>
NameZed == <<"Z", "e", "d">>
TextDNS == <<"D", "N", "S">>

\* raw entries that differ in the fields the standings order reads
OrderRawEntries ==
    {Obj([id |-> Num(11), display_name |-> Str(NameAl), position_cache |-> Num(1),
          championship_score |-> Num(5)]),
     Obj([id |-> Num(12), display_name |-> Str(NameAlLower), position_cache |-> Num(1),
          championship_score |-> Num(5)]),
     Obj([id |-> Num(13), display_name |-> Str(NameBo), position_cache |-> Num(1),
          championship_score |-> Num(7)]),
     Obj([id |-> Num(14), display_name |-> Str(NameBo), position_cache |-> Num(2),
          championship_score |-> Num(5)]),
     Obj([id |-> Num(15), display_name |-> Str(NameAl), championship_score |-> Num(7)]),
     Obj([id |-> Num(16), display_name |-> Str(<<" ">>), position_cache |-> Null,
          championship_score |-> Str(<<"7">>)])}

\* raw entries that differ in shape and in their race-result lists
ShapeRawEntries ==
    {Null,
     Str(<<"x">>),
     Obj([id |-> Num(21), display_name |-> Str(NameAl), position_cache |-> Num(1),
          partial_standings |-> Arr(<<>>),
          overall_partial_standings |-> Arr(<<Num(3), EmptyObj>>)]),
     Obj([id |-> Num(22), display_name |-> Str(NameBo),
          partial_standings |->
             Arr(<<Obj([position |-> Str(TextDNS)]),
                   Obj([rank |-> Str(<<"-">>), id |-> Num(9), points |-> Num(25)])>>)]),
     Obj([id |-> Num(23), display_name |-> Str(NameAlLower), position_cache |-> Num(2),
          partial_standings |-> Arr(<<Null>>)]),
     Obj([id |-> Num(24), display_name |-> Str(NameAl), participant |-> Null]),
     Obj([id |-> Num(25), display_name |-> Str(NameZed), position_cache |-> Num(1),
          partial_standings |->
             Arr(<<Obj([position |-> Str(TextDNS)]), Obj([position |-> Str(TextDNS)]),
                   Obj([position_cache |-> Str(TextDNS), race_id |-> Num(8)])>>)])}

RawRace1 == Obj([id |-> Num(7), display_name |-> Str(<<"R", "1">>), ended |-> Bool(TRUE)])
RawRace2 == Obj([id |-> Num(8), race_name |-> Str(<<"R", "2">>)])

\* payload[1]
RawRaceLists ==
    {Null, Arr(<<>>), Arr(<<RawRace1>>), Arr(<<RawRace1, RawRace2>>),
     Arr(<<Null>>), Arr(<<Str(<<"x">>), RawRace2>>)}

\* payload[0]
RawEntryLists ==
    {Arr(s) : s \in SeqsUpTo(OrderRawEntries, MaxEntries)
                    \cup SeqsUpTo(ShapeRawEntries, MaxEntries)}
    \cup {Null, EmptyObj}

\* bodies of the upstream JSON response: values that are not arrays, and arrays
\* of length 0, 1, 2 and 3
Payloads ==
    {Null, Num(5), Str(<<"x">>), Obj([entries |-> Arr(<<>>)]), Arr(<<>>)}
    \cup {Arr(<<e>>) : e \in RawEntryLists}
    \cup {Arr(<<e, r>>) : e \in RawEntryLists, r \in RawRaceLists}
    \cup {Arr(<<e, r, Null>>) : e \in {Arr(s) : s \in SeqsUpTo(ShapeRawEntries, 1)},
                                 r \in RawRaceLists}

\* errors the upstream JSON request or the HTML request can fail with
HttpError(status) == [name |-> "HttpErrorResponse", status |-> status]
HttpErrors == {HttpError(0), HttpError(404), HttpError(429), HttpError(500)}

Tr(entrant, name, position, cells) ==
    [entrant |-> entrant, name |-> name, position |-> position, cells |-> cells]

TrHeader == Tr(FALSE, Undef, Undef, <<>>)
TrAl == Tr(TRUE, Str(<<"TAG", "A", "L", "&nbsp;">>), Str(<<"1">>), <<<<"3">>, <<"-">>>>)
TrAlLower == Tr(TRUE, Str(<<"a", "l">>), Undef, <<<<"EM_DASH">>, <<"2">>, <<"5">>>>)
TrBo == Tr(TRUE, Str(<<"B", "o">>), Str(<<"P", "2">>), <<<<"7", " ", "+", "1">>>>)
TrOther == Tr(TRUE, Str(<<"x">>), Str(<<"1">>), <<<<"ZWSP", "4">>, <<"D", "N", "F">>>>)
TrNoName == Tr(TRUE, Undef, Str(<<"2">>), <<<<"1">>, <<"1">>>>)

\* bodies of the HTML response: null (an empty response), pages without the
\* table, without race columns, without rows, and pages with both
HtmlBodies ==
    {Null,
     HtmlPage(FALSE, <<>>, <<>>),
     HtmlPage(TRUE, <<<<"7">>>>, <<TrHeader>>),
     HtmlPage(TRUE, <<>>, <<TrHeader, TrAl>>),
     HtmlPage(TRUE, <<<<"7">>>>, <<TrHeader, TrBo, TrAl>>),
     HtmlPage(TRUE, <<<<"7">>, <<"8">>, <<"7">>>>, <<TrAlLower, TrAl, TrOther>>),
     HtmlPage(TRUE, <<<<"7">>, <<"8">>, <<"9">>>>, <<TrNoName, TrAlLower>>),
     HtmlPage(TRUE, <<<<"8">>, <<"0", "7">>>>, <<TrOther, TrBo, TrNoName>>)}

----------------------------------------------------------------------------
(* getChampionshipStandings: the observable pipeline *)

NotYet == [t |-> "none"]
TypeError == [name |-> "TypeError"]

\* what the subscriber has received so far: of(v) delivers v and completes
Nothing == <<>>
ValueThenComplete(v) == <<[kind |-> "next", value |-> v], [kind |-> "complete"]>>
ErrorOnly(e) == <<[kind |-> "error", error |-> e]>>

HarnessIdle ==
    /\ mData = NotYet /\ mDoc = NotYet /\ mOut = NotYet /\ mOut2 = NotYet
    /\ mMatch = NotYet /\ mSnap = NotYet /\ mpc = "off"

UnitIdle == fIn = NotYet /\ fOut = NotYet /\ fpc = "off"

ComponentIdle == cmp = NotYet /\ calls = <<>> /\ now = 0 /\ ticks = 0

Init ==
    /\ pc = "idle"
    /\ payload = NotYet
    /\ standings = NotYet
    /\ htmlFetched = FALSE
    /\ htmlBody = NotYet
    /\ outcome = Nothing
    /\ jsonError = NotYet
    /\ HarnessIdle
    /\ UnitIdle
    /\ ComponentIdle

\* the caller subscribes: http.get of the upstream standings is issued
Subscribe ==
    /\ pc = "idle"
    /\ pc' = "jsonPending"
    /\ UNCHANGED <<payload, standings, htmlFetched, htmlBody, outcome, jsonError, harness, unit, component>>

\* faulty variant of JsonFail: a catchError on the outer pipe turns the error
\* into an empty result
JsonFail_Swallowed ==
    /\ pc = "jsonPending"
    /\ \E e \in HttpErrors :
        /\ jsonError' = e
        /\ outcome' = ValueThenComplete(EmptyStandings)
    /\ pc' = "done"
    /\ UNCHANGED <<payload, standings, htmlFetched, htmlBody, harness, unit, component>>

\* the upstream JSON request fails: no operator of the pipe handles the error
JsonFail ==
    /\ pc = "jsonPending"
    /\ \E e \in HttpErrors :
        /\ jsonError' = e
        /\ outcome' = ErrorOnly(e)
    /\ pc' = "done"
    /\ UNCHANGED <<payload, standings, htmlFetched, htmlBody, harness, unit, component>>

\* the upstream JSON request succeeds: map(parseStandings), then the
\* switchMap projection up to its return
JsonRespond ==
    /\ pc = "jsonPending"
    /\ \E p \in Payloads :
        LET parsed == parseStandings(p) IN
        /\ payload' = p
        /\ standings' = parsed
        /\ IF parsed.threw
           THEN /\ outcome' = ErrorOnly(TypeError)
                /\ pc' = "done"
                /\ htmlFetched' = htmlFetched
           ELSE IF hasRacePositions(parsed.val) \/ Len(parsed.val.races) = 0
           THEN /\ outcome' = ValueThenComplete(parsed.val)
                /\ pc' = "done"
                /\ htmlFetched' = htmlFetched
           ELSE /\ outcome' = outcome
                /\ pc' = "htmlPending"
                /\ htmlFetched' = TRUE
    /\ UNCHANGED <<htmlBody, jsonError, harness, unit, component>>

\* faulty variant of HtmlFail: the inner pipe has no catchError
HtmlFail_Propagates ==
    /\ pc = "htmlPending"
    /\ \E e \in HttpErrors :
        /\ htmlBody' = e
        /\ outcome' = ErrorOnly(e)
    /\ pc' = "done"
    /\ UNCHANGED <<payload, standings, htmlFetched, jsonError, harness, unit, component>>

\* the HTML request fails: catchError(() => of(standings))
HtmlFail ==
    /\ pc = "htmlPending"
    /\ \E e \in HttpErrors : htmlBody' = e
    /\ outcome' = ValueThenComplete(standings.val)
    /\ pc' = "done"
    /\ UNCHANGED <<payload, standings, htmlFetched, jsonError, harness, unit, component>>

\* the HTML request succeeds: map(mergeHtmlRacePositions), whose error
\* catchError replaces by of(standings)
HtmlRespond ==
    /\ pc = "htmlPending"
    /\ \E html \in HtmlBodies :
        LET merged == mergeHtmlRacePositions(standings.val, html) IN
        /\ htmlBody' = html
        /\ outcome' = IF merged.threw THEN ValueThenComplete(standings.val)
                      ELSE ValueThenComplete(merged.val)
    /\ pc' = "done"
    /\ UNCHANGED <<payload, standings, htmlFetched, jsonError, harness, unit, component>>

Next == Subscribe \/ JsonFail \/ JsonRespond \/ HtmlFail \/ HtmlRespond

Spec == Init /\ [][Next]_vars

----------------------------------------------------------------------------
(* Properties of getChampionshipStandings, checked under Spec *)

Responded == payload # NotYet
Normalized == standings # NotYet /\ ~standings.threw
Delivered(v) == outcome = ValueThenComplete(v)

\* no entry has a race result with a non-null position
NoRacePosition(data) ==
    \A i \in DOMAIN data.entries :
        \A j \in DOMAIN data.entries[i].raceResults :
            data.entries[i].raceResults[j].position.t = "null"

\* C1 as stated: every payload that is not a 2-element array (not an array, or
\* an array of length 0, 1, 3 or more) is normalized to {entries: [], races: []}
\* (stated of the payloads parseStandings returns for).
C1_NotTwoElementsYieldsEmpty ==
    Normalized /\ ~(IsArray(payload) /\ Len(payload.v) = 2)
        => standings = Ok(EmptyStandings)

\* C1 amended: every payload that is not an array, and the empty array, is
\* normalized to {entries: [], races: []}; an array of any other length is
\* normalized exactly like the 2-element array of its elements 0 and 1.
C1_NonArrayYieldsEmpty ==
    Responded =>
        /\ ~IsArray(payload) \/ Len(payload.v) = 0 => standings = Ok(EmptyStandings)
        /\ IsArray(payload) => standings = parseStandings(Arr(<<At(payload, 0), At(payload, 1)>>))

C1_Witness ==
    /\ pc = "done"
    /\ payload = Obj([entries |-> Arr(<<>>)])
    /\ standings = Ok(EmptyStandings)

\* C2: normalization never raises for any shape of upstream JSON: once the
\* upstream request has succeeded the subscriber never receives an error.
C2_NormalizationNeverRaises ==
    Responded => standings # Threw /\ \A i \in DOMAIN outcome : outcome[i].kind # "error"

\* C3: when the upstream JSON request fails, the subscriber receives exactly
\* that error, unmodified, no value, and the HTML request is never issued.
C3_UpstreamErrorPropagates ==
    jsonError # NotYet =>
        /\ outcome = ErrorOnly(jsonError)
        /\ ~htmlFetched
        /\ htmlBody = NotYet

C3_Witness == pc = "done" /\ jsonError = HttpError(429) /\ outcome = ErrorOnly(HttpError(429))

\* the HTML fallback failed: the request failed, or the scrape/merge raised
HtmlPathFailed ==
    /\ htmlBody # NotYet
    /\ htmlBody \in HttpErrors \/ mergeHtmlRacePositions(standings.val, htmlBody).threw

\* C4: once the upstream JSON request has succeeded, a failure of the HTML
\* fallback (request failure, or the scrape/merge raising) never reaches the
\* subscriber, which receives exactly the normalized-only result.
C4_HtmlFailureIsSwallowed ==
    HtmlPathFailed => Normalized /\ Delivered(standings.val)

C4_Witness ==
    /\ pc = "done"
    /\ Normalized
    /\ htmlBody = HttpError(500)
    /\ Len(standings.val.entries) > 0
    /\ Delivered(standings.val)

\* C5: the HTML page is fetched only after the upstream JSON was fetched and
\* normalized, and only if the normalized result has at least one race and no
\* entry has a race result with a non-null position; otherwise the normalized
\* result is delivered as-is and the HTML page is not fetched.
C5_HtmlOnlyWhenNeeded ==
    /\ htmlFetched =>
          /\ Normalized
          /\ Len(standings.val.races) >= 1
          /\ NoRacePosition(standings.val)
    /\ Normalized /\ ~(Len(standings.val.races) >= 1 /\ NoRacePosition(standings.val)) =>
          /\ ~htmlFetched
          /\ htmlBody = NotYet
          /\ Delivered(standings.val)

C5_Witness ==
    /\ pc = "done"
    /\ Normalized
    /\ ~htmlFetched
    /\ Len(standings.val.races) >= 1
    /\ \E i \in DOMAIN standings.val.entries :
          /\ standings.val.entries[i].raceResults # <<>>
          /\ NoRacePosition([entries |-> <<standings.val.entries[i]>>])
    /\ ~NoRacePosition(standings.val)
    /\ Delivered(standings.val)

\* a may stand directly before b in standings order
InStandingsOrder(a, b) ==
    /\ b.position.t = "null" \/ (a.position.t # "null" /\ a.position.v <= b.position.v)
    /\ a.position = b.position => a.score >= b.score
    /\ a.position = b.position /\ a.score = b.score =>
          localeCompare(a.displayName, b.displayName) <= 0

\* C6: the entries returned by normalization are in standings order: every
\* adjacent pair is non-decreasing in effective position (null as +infinity),
\* among equal positions non-increasing in score, among equal position and
\* score non-decreasing in displayName under the name comparison.
C6_EntriesInStandingsOrder ==
    Normalized =>
        \A i \in 1..(Len(standings.val.entries) - 1) :
            InStandingsOrder(standings.val.entries[i], standings.val.entries[i + 1])

C6_Witness ==
    /\ Normalized
    /\ Len(standings.val.entries) = 3
    /\ [i \in 1..3 |-> standings.val.entries[i].id]
          # [i \in 1..3 |-> toNumber(Get(payload.v[1].v[i], "id"))]
    /\ standings.val.entries[1].position = standings.val.entries[2].position
    /\ standings.val.entries[1].score = standings.val.entries[2].score
    /\ standings.val.entries[1].displayName # standings.val.entries[2].displayName
    /\ standings.val.entries[3].position = Null

StrictlyIncreasingRaceIndex(results) ==
    \A i \in 1..(Len(results) - 1) : results[i].raceIndex < results[i + 1].raceIndex

\* C10: in every result getChampionshipStandings delivers (merged or not),
\* each entry's raceResults list is strictly increasing in raceIndex.
C10_RaceResultsStrictlyIncreasing ==
    \A n \in DOMAIN outcome :
        outcome[n].kind = "next" =>
            \A i \in DOMAIN outcome[n].value.entries :
                StrictlyIncreasingRaceIndex(outcome[n].value.entries[i].raceResults)

C10_Witness ==
    /\ pc = "done"
    /\ htmlBody # NotYet
    /\ outcome # Nothing
    /\ outcome[1].kind = "next"
    /\ outcome[1].value # standings.val
    /\ \E i \in DOMAIN outcome[1].value.entries :
          /\ Len(outcome[1].value.entries[i].raceResults) >= 3
          /\ Len(outcome[1].value.entries[i].raceResults)
                > Len(standings.val.entries[i].raceResults)

----------------------------------------------------------------------------
(* mergeHtmlRacePositions on its own: the merge applied to normalized data  *)
(* and to a page, and applied once more to its own result.                   *)

MaxRows == 2

MergeRawAl ==
    Obj([id |-> Num(31), display_name |-> Str(NameAl), position_cache |-> Num(1),
         championship_score |-> Num(5)])
MergeRawAlLower ==
    Obj([id |-> Num(32), display_name |-> Str(NameAlLower),
         overall_partial_standings |-> Arr(<<Obj([position |-> Str(TextDNS)]), Num(4)>>)])
MergeRawZed ==
    Obj([id |-> Num(33), display_name |-> Str(NameZed), position_cache |-> Num(2),
         partial_standings |->
            Arr(<<Obj([position |-> Str(TextDNS), race_id |-> Num(9), points |-> Num(25)])>>)])
MergeRawBlank ==
    Obj([id |-> Num(34),
         partial_standings |->
            Arr(<<Obj([position |-> Str(TextDNS)]), Obj([rank |-> Str(TextDNS)]),
                  Obj([position_cache |-> Str(TextDNS)])>>)])
MergeRawBo ==
    Obj([id |-> Num(35), display_name |-> Str(NameBo), position_cache |-> Num(2)])

MergeRawEntryLists ==
    {<<>>, <<MergeRawAl>>, <<MergeRawAlLower>>, <<MergeRawBlank>>,
     <<MergeRawAl, MergeRawAlLower>>, <<MergeRawAlLower, MergeRawBlank>>,
     <<MergeRawZed, MergeRawBo>>, <<MergeRawAlLower, MergeRawAlLower>>,
     <<MergeRawAl, MergeRawAlLower, MergeRawZed>>,
     <<MergeRawAlLower, MergeRawBlank, MergeRawZed>>,
     <<MergeRawBo, MergeRawZed, MergeRawAl>>,
     <<MergeRawBlank, MergeRawBlank, MergeRawAlLower>>}

MergeRawRaceLists == {Arr(<<>>), Arr(<<RawRace1>>), Arr(<<RawRace1, RawRace2>>)}

\* the normalized data the merge is applied to
MergeData ==
    {parseStandings(Arr(<<Arr(e), r>>)).val : e \in MergeRawEntryLists, r \in MergeRawRaceLists}

MergeTrs == {TrHeader, TrAl, TrAlLower, TrBo, TrOther, TrNoName}

MergeRaceIds ==
    {<<>>, <<<<"7">>>>, <<<<"7">>, <<"8">>, <<"7">>>>, <<<<"7">>, <<"8">>, <<"9">>>>}

MergePages ==
    {HtmlPage(FALSE, <<>>, <<>>)}
    \cup {HtmlPage(TRUE, ids, trs) : ids \in MergeRaceIds, trs \in SeqsUpTo(MergeTrs, MaxRows)}

PipelineIdle ==
    /\ pc = "off" /\ payload = NotYet /\ standings = NotYet /\ htmlFetched = FALSE
    /\ htmlBody = NotYet /\ outcome = Nothing /\ jsonError = NotYet

MergeInit ==
    /\ PipelineIdle
    /\ UnitIdle
    /\ ComponentIdle
    /\ mData \in MergeData
    /\ mDoc \in MergePages
    /\ mOut = NotYet
    /\ mOut2 = NotYet
    /\ mMatch = NotYet
    /\ mSnap = NotYet
    /\ mpc = "ready"

\* rowIndex of every entry in data.entries.map; no entry is visited when the
\* merge returns before the map
MatchedRows(data, html) ==
    LET snapshot == extractHtmlStandings(html) IN
    IF snapshot = Null \/ Len(snapshot.raceColumns) = 0 \/ Len(snapshot.rows) = 0
    THEN <<>>
    ELSE RowIndexes(data.entries, snapshot.rows, Len(data.entries))

\* mergeHtmlRacePositions(mData, mDoc)
Merge ==
    /\ mpc = "ready"
    /\ mOut' = mergeHtmlRacePositions(mData, mDoc).val
    /\ mMatch' = MatchedRows(mData, mDoc)
    /\ mSnap' = extractHtmlStandings(mDoc)
    /\ mData' = DataAfterMerge(mData, extractHtmlStandings(mDoc))
    /\ mpc' = "merged"
    /\ UNCHANGED <<pipeline, unit, component, mDoc, mOut2>>

\* mergeHtmlRacePositions(mOut, mDoc)
MergeAgain ==
    /\ mpc = "merged"
    /\ mOut2' = mergeHtmlRacePositions(mOut, mDoc).val
    /\ mOut' = DataAfterMerge(mOut, extractHtmlStandings(mDoc))
    /\ mpc' = "again"
    /\ UNCHANGED <<pipeline, unit, component, mData, mDoc, mMatch, mSnap>>

MergeNext == Merge \/ MergeAgain

MergeSpec == MergeInit /\ [][MergeNext]_vars

----------------------------------------------------------------------------
(* Properties of the merge, checked under MergeSpec *)

\* what the scraper finds in the page
ScrapedColumns == IF mDoc.table THEN RaceColumnsOf(mDoc.raceIds) ELSE <<>>
ScrapedRowCount ==
    IF mDoc.table THEN Cardinality({i \in DOMAIN mDoc.rows : mDoc.rows[i].entrant}) ELSE 0

\* C7: merging a snapshot with zero race columns or zero rows, or no
\* snapshot at all, returns the input entries and races unchanged.
C7_EmptySnapshotLeavesDataUnchanged ==
    mpc \in {"merged", "again"} /\ (Len(ScrapedColumns) = 0 \/ ScrapedRowCount = 0)
        => mOut = mData

C7_Witness ==
    /\ mpc = "merged"
    /\ mDoc.table
    /\ Len(ScrapedColumns) = 0
    /\ ScrapedRowCount = 2
    /\ Len(mData.entries) >= 2
    /\ Len(mData.races) >= 1
    /\ mOut = mData

\* C8: the merge is idempotent: merging the same valid snapshot into the
\* merged result yields the merged result again (no race result is
\* duplicated and no non-null position is changed).
C8_MergeIdempotent ==
    mpc = "again" => mOut2 = mOut

C8_Witness ==
    /\ mpc = "again"
    /\ Len(mOut.races) > Len(mData.races)
    /\ Len(ScrapedColumns) >= 2
    /\ \E i \in DOMAIN mMatch :
          /\ Len(mData.entries[i].raceResults) = 2
          /\ mData.entries[i].raceResults[1].position = Null
          /\ mData.entries[i].raceResults[2].position = Num(4)
          /\ mMatch[i] >= 0
          /\ extractHtmlStandings(mDoc).rows[mMatch[i] + 1].racePositions[2] = Num(2)
          /\ Len(mOut.entries[i].raceResults) = 3
          /\ mOut.entries[i].raceResults[2].position = Num(4)
    /\ mOut2 = mOut

\* C9: one merge never matches two distinct entries to the same HTML row.
C9_MatchingInjective ==
    mpc \in {"merged", "again"} =>
        \A i, j \in DOMAIN mMatch :
            i # j /\ mMatch[i] >= 0 /\ mMatch[j] >= 0 => mMatch[i] # mMatch[j]

C9_Witness ==
    /\ mpc = "merged"
    /\ Len(mMatch) >= 2
    /\ mMatch[1] >= 0
    /\ mMatch[2] >= 0
    /\ normalizeName(mData.entries[1].displayName) = normalizeName(mData.entries[2].displayName)
    /\ ScrapedRowCount = 2
    /\ \A i \in DOMAIN mDoc.rows :
          /\ mDoc.rows[i].name.t = "string"
          /\ normalizeName(stripHtml(mDoc.rows[i].name.v))
                = normalizeName(mData.entries[1].displayName)

\* the merge has returned
Merged == mpc \in {"merged", "again"}

\* the scraped race positions of the row matched to entry e
ScrapedPositions(e) == mSnap.rows[mMatch[e] + 1].racePositions

\* the scraped value at zero-based race index k; none beyond the race columns
ScrapedAt(e, k) ==
    IF k + 1 \in DOMAIN ScrapedPositions(e) THEN ScrapedPositions(e)[k + 1] ELSE Null

ResultsAt(results, k) == {j \in DOMAIN results : results[j].raceIndex = k}

\* the race indexes an entry can have a result at, before or after the merge
RaceIndexes(e) == 0..(Len(ScrapedPositions(e)) + Len(mData.entries[e].raceResults))

\* C14: for a matched entry without a race result at race index k, the merge
\* adds a result at k exactly when the scraped value at k is non-null; the
\* added result has points null, the scraped value as position and the id of
\* the merged race list at k as raceId.
C14_AddsResultIffScraped ==
    Merged =>
        \A e \in DOMAIN mMatch :
            mMatch[e] >= 0 =>
                LET before == mData.entries[e].raceResults
                    after == mOut.entries[e].raceResults
                IN /\ \A j \in DOMAIN after : after[j].raceIndex \in RaceIndexes(e)
                   /\ \A k \in RaceIndexes(e) :
                        ResultsAt(before, k) = {} =>
                            IF ScrapedAt(e, k) = Null THEN ResultsAt(after, k) = {}
                            ELSE /\ Cardinality(ResultsAt(after, k)) = 1
                                 /\ \A j \in ResultsAt(after, k) :
                                        after[j] = [raceIndex |-> k,
                                                    position |-> ScrapedAt(e, k),
                                                    points |-> Null,
                                                    raceId |-> Num(mOut.races[k + 1].id)]

\* an entry without race results matched to a row with racePositions [3, null]
\* ends with exactly one result
C14_Witness ==
    /\ mpc = "merged"
    /\ \E e \in DOMAIN mMatch :
          /\ mMatch[e] >= 0
          /\ mData.entries[e].raceResults = <<>>
          /\ ScrapedPositions(e) = <<Num(3), Null>>
          /\ Len(mOut.entries[e].raceResults) = 1
          /\ mOut.entries[e].raceResults[1].raceIndex = 0
          /\ mOut.entries[e].raceResults[1].position = Num(3)
          /\ mOut.entries[e].raceResults[1].points = Null

\* the rows of the snapshot; the merge visits the entries only when it has one
SnapshotRows == mSnap.rows

\* the rows matched to the entries before entry e
UsedBefore(e) == {mMatch[y] : y \in 1..(e - 1)} \ {0 - 1}

\* the row at the entry's own index, when it is within bounds and unused
OwnRow(e) == IF e - 1 < Len(SnapshotRows) /\ (e - 1) \notin UsedBefore(e) THEN e - 1 ELSE 0 - 1

EntryName(e) == normalizeName(mData.entries[e].displayName)

SameNameNullPosition(i, j) ==
    /\ i # j
    /\ EntryName(i) = EntryName(j)
    /\ mData.entries[i].position = Null
    /\ mData.entries[j].position = Null

\* C16 as stated: two entries with the same normalized display name and null
\* position, each with a row at its own index, are both matched by the
\* positional fallback: entry i gets row i.
C16_SameNameUsesOwnRows ==
    Merged =>
        \A i, j \in DOMAIN mMatch :
            SameNameNullPosition(i, j) /\ i <= Len(SnapshotRows) /\ j <= Len(SnapshotRows)
                => mMatch[i] = i - 1 /\ mMatch[j] = j - 1

\* C16 amended: two entries with the same normalized display name and null
\* position are matched by the positional fallback when no row has that
\* normalized name: each gets the row at its own index if that row exists and
\* no earlier entry has taken it, and no row otherwise; the two never get the
\* same row.
C16_FallbackWhenNoRowHasName ==
    Merged =>
        \A i, j \in DOMAIN mMatch :
            SameNameNullPosition(i, j) =>
                /\ mMatch[i] >= 0 /\ mMatch[j] >= 0 => mMatch[i] # mMatch[j]
                /\ (\A r \in DOMAIN SnapshotRows :
                        SnapshotRows[r].normalizedName # EntryName(i))
                   => mMatch[i] = OwnRow(i) /\ mMatch[j] = OwnRow(j)

C16_Witness ==
    /\ mpc = "merged"
    /\ Len(mMatch) = 2
    /\ SameNameNullPosition(1, 2)
    /\ Len(SnapshotRows) = 2
    /\ \A r \in DOMAIN SnapshotRows : SnapshotRows[r].normalizedName # EntryName(1)
    /\ mMatch = <<0, 1>>

Least(S) == CHOOSE i \in S : \A j \in S : i <= j

\* C17: entries are matched in list order; the row of an entry is the lowest
\* unused row with its normalized name, else (position non-null) the lowest
\* unused row with its position, else the row at its own index if within
\* bounds and unused, else none, and then the entry is returned unmodified.
C17_MatchingOrder ==
    Merged =>
        \A e \in DOMAIN mMatch :
            LET unused == (0..(Len(SnapshotRows) - 1)) \ UsedBefore(e)
                byName == {r \in unused : SnapshotRows[r + 1].normalizedName = EntryName(e)}
                byPosition ==
                    {r \in unused : SnapshotRows[r + 1].position = mData.entries[e].position}
            IN /\ mMatch[e] =
                    IF byName # {} THEN Least(byName)
                    ELSE IF mData.entries[e].position # Null /\ byPosition # {}
                         THEN Least(byPosition)
                    ELSE OwnRow(e)
               /\ mMatch[e] < 0 => mOut.entries[e] = mData.entries[e]

\* the first entry takes row 1 by name, the second row 0 by position, and
\* the third finds no row
C17_Witness ==
    /\ mpc = "merged"
    /\ mMatch = <<1, 0, 0 - 1>>
    /\ SnapshotRows[2].normalizedName = EntryName(1)
    /\ SnapshotRows[1].normalizedName # EntryName(2)
    /\ SnapshotRows[1].position = mData.entries[2].position
    /\ SnapshotRows[2].normalizedName = EntryName(3)
    /\ mOut.entries[3] = mData.entries[3]

\* the id of the merged race list at zero-based index k; none beyond its end
MergedRaceIdAt(k) == IF k + 1 \in DOMAIN mOut.races THEN Num(mOut.races[k + 1].id) ELSE Null

\* C18: for a matched entry with a race result at race index k, the merged
\* result at k keeps the existing position when it is non-null and otherwise
\* takes the scraped value, keeps the existing raceId when it is non-null and
\* otherwise takes the id of the merged race list at k, and keeps the points.
C18_ExistingResultKept ==
    Merged =>
        \A e \in DOMAIN mMatch :
            mMatch[e] >= 0 =>
                LET before == mData.entries[e].raceResults
                    after == mOut.entries[e].raceResults
                IN \A j \in DOMAIN before :
                        LET k == before[j].raceIndex IN
                        /\ Cardinality(ResultsAt(after, k)) = 1
                        /\ \A x \in ResultsAt(after, k) :
                            after[x] =
                                [raceIndex |-> k,
                                 position |-> IF before[j].position # Null
                                              THEN before[j].position ELSE ScrapedAt(e, k),
                                 raceId |-> IF before[j].raceId # Null
                                            THEN before[j].raceId ELSE MergedRaceIdAt(k),
                                 points |-> before[j].points]

\* one entry takes the scraped position and keeps raceId and points; another
\* keeps its position and takes the raceId of the merged race list
C18_Witness ==
    /\ mpc = "merged"
    /\ \E e \in DOMAIN mMatch :
          /\ mMatch[e] >= 0
          /\ mData.entries[e].raceResults =
                <<[raceIndex |-> 0, position |-> Null, raceId |-> Num(9), points |-> Num(25)]>>
          /\ ScrapedAt(e, 0) = Num(7)
          /\ mOut.entries[e].raceResults =
                <<[raceIndex |-> 0, position |-> Num(7), raceId |-> Num(9), points |-> Num(25)]>>

\* the number of race columns of the snapshot; none without a snapshot
SnapshotColumnCount ==
    IF mSnap = Null THEN 0 ELSE Len(mSnap.raceColumns)

\* C19: the race list the merge returns has the input race list as an
\* unchanged prefix, and its length is the greater of the input race count
\* and the number of scraped race columns.
C19_RacesKeptAsPrefix ==
    Merged =>
        /\ Len(mOut.races) =
                IF SnapshotColumnCount > Len(mData.races)
                THEN SnapshotColumnCount ELSE Len(mData.races)
        /\ \A i \in DOMAIN mData.races : mOut.races[i] = mData.races[i]

C19_Witness ==
    /\ mpc = "merged"
    /\ Len(mData.races) = 1
    /\ SnapshotColumnCount = 3
    /\ Len(mOut.races) = 3
    /\ mOut.races[1] = mData.races[1]
    /\ mOut.races[3].id = 9

C21_NullWithoutColumnsOrRows ==
    Merged => (mSnap = Null <=> (Len(ScrapedColumns) = 0 \/ ScrapedRowCount = 0))

\* C21 amended: the scraper returns null exactly when the page has no
\* standings table or the table has no data row; otherwise it returns the
\* columns and rows it found, also when it found no race column.
C21_NullWithoutTableOrRows ==
    Merged =>
        /\ mSnap = Null <=> (~mDoc.table \/ ScrapedRowCount = 0)
        /\ mSnap # Null =>
              /\ mSnap.raceColumns = ScrapedColumns
              /\ Len(mSnap.rows) = ScrapedRowCount
              /\ \A r \in DOMAIN mSnap.rows :
                    Len(mSnap.rows[r].racePositions) = Len(ScrapedColumns)

\* a table with two data rows and no race column
C21_Witness ==
    /\ mpc = "merged"
    /\ mDoc.table
    /\ Len(ScrapedColumns) = 0
    /\ ScrapedRowCount = 2
    /\ mSnap # Null
    /\ mSnap.raceColumns = <<>>
    /\ Len(mSnap.rows) = 2

\* some row of the snapshot has the normalized name of entry e, which is not
\* empty, and no other entry has it
UniqueNameWithRow(e) ==
    /\ EntryName(e) # <<>>
    /\ \E r \in DOMAIN SnapshotRows : SnapshotRows[r].normalizedName = EntryName(e)
    /\ \A o \in DOMAIN mMatch : o # e => EntryName(o) # EntryName(e)

\* C29: in every merge, an entry whose normalized display name is the
\* normalized name of some row and of no other entry is matched to a row
\* with that name.
C29_UniqueNameGetsItsRow ==
    Merged =>
        \A e \in DOMAIN mMatch :
            UniqueNameWithRow(e) =>
                /\ mMatch[e] >= 0
                /\ SnapshotRows[mMatch[e] + 1].normalizedName = EntryName(e)

\* two entries that differ at most in their raceResults
SameButRaceResults(a, b) ==
    /\ a.id = b.id
    /\ a.position = b.position
    /\ a.displayName = b.displayName
    /\ a.countryCode = b.countryCode
    /\ a.car = b.car
    /\ a.points = b.points
    /\ a.penalties = b.penalties
    /\ a.score = b.score

\* C30: the merge returns as many entries as it was given, in the same
\* order, each equal to its input entry in id, position, displayName,
\* countryCode, car, points, penalties and score, so the entries it returns
\* are in standings order like those it was given.
C30_MergeKeepsEntriesAndOrder ==
    Merged =>
        /\ Len(mOut.entries) = Len(mData.entries)
        /\ \A e \in DOMAIN mData.entries :
              SameButRaceResults(mOut.entries[e], mData.entries[e])
        /\ \A e \in 1..(Len(mOut.entries) - 1) :
              InStandingsOrder(mOut.entries[e], mOut.entries[e + 1])

\* three entries of which the first two are matched to rows in the other
\* order and get results
C30_Witness ==
    /\ mpc = "merged"
    /\ Len(mData.entries) = 3
    /\ Len(mMatch) = 3
    /\ mMatch[1] = 1
    /\ mMatch[2] = 0
    /\ mOut.entries[1].raceResults # mData.entries[1].raceResults
    /\ mOut.entries[2].raceResults # mData.entries[2].raceResults

----------------------------------------------------------------------------
(* The pure helpers applied on their own: a call is a function name with    *)
(* its arguments, and the step of that function records what it returns.    *)

MaxName == 3

\* characters of the names handed to normalizeName: a letter in both cases,
\* with and without an accent, a second letter, a space and a punctuation
NameChars == {"e", "E", "e_acute", "E_ACUTE", "r", "R", " ", "-"}

NameCalls == {[fn |-> "normalizeName", value |-> Str(s)] : s \in SeqsUpTo(NameChars, MaxName)}

MaxItems == 3

\* parseRaceResults: lists of a bare position, an object item with a position
\* that is no number, an empty object item and null, with no race, one race
\* and three races
ResultCalls ==
    {[fn |-> "parseRaceResults", value |-> Undef, races |-> <<>>]}
    \cup {[fn |-> "parseRaceResults", value |-> Arr(items), races |-> parseRaces(Arr(r)).val] :
            items \in SeqsUpTo({Num(5), Obj([position |-> Str(TextDNS)]), EmptyObj, Null}, MaxItems),
            r \in {<<>>, <<RawRace1>>, <<RawRace1, RawRace2, RawRace1>>}}

MaxText == 3

\* characters of the cell texts handed to parseHtmlRacePosition, after stripHtml
CellChars == {"-", "EM_DASH", "ZWSP", " ", "3", "P"}

CellCalls ==
    {[fn |-> "parseHtmlRacePosition", value |-> Str(s)] : s \in SeqsUpTo(CellChars, MaxText)}

\* parseRaces: one race whose display_name and race_name are each absent,
\* null, empty, blank or a name
RaceLabels == {Undef, Null, Str(<<>>), Str(<<" ">>), Str(NameAl), Str(NameBo)}

RaceCalls ==
    {[fn |-> "parseRaces",
      value |-> Arr(<<Obj([id |-> Num(7), display_name |-> d, race_name |-> r])>>)] :
        d \in RaceLabels, r \in RaceLabels}

UnitCalls == NameCalls \cup ResultCalls \cup CellCalls \cup RaceCalls

UnitInit ==
    /\ PipelineIdle
    /\ HarnessIdle
    /\ ComponentIdle
    /\ fIn \in UnitCalls
    /\ fOut = NotYet
    /\ fpc = "ready"

\* normalizeName(fIn.value)
ApplyNormalizeName ==
    /\ fpc = "ready"
    /\ fIn.fn = "normalizeName"
    /\ fOut' = normalizeName(fIn.value.v)
    /\ fpc' = "done"
    /\ UNCHANGED <<pipeline, harness, component, fIn>>

\* parseRaceResults(fIn.value, fIn.races)
ApplyParseRaceResults ==
    /\ fpc = "ready"
    /\ fIn.fn = "parseRaceResults"
    /\ fOut' = parseRaceResults(fIn.value, fIn.races)
    /\ fpc' = "done"
    /\ UNCHANGED <<pipeline, harness, component, fIn>>

\* parseHtmlRacePosition(fIn.value)
ApplyParseHtmlRacePosition ==
    /\ fpc = "ready"
    /\ fIn.fn = "parseHtmlRacePosition"
    /\ fOut' = parseHtmlRacePosition(fIn.value)
    /\ fpc' = "done"
    /\ UNCHANGED <<pipeline, harness, component, fIn>>

\* parseRaces(fIn.value)
ApplyParseRaces ==
    /\ fpc = "ready"
    /\ fIn.fn = "parseRaces"
    /\ fOut' = parseRaces(fIn.value)
    /\ fpc' = "done"
    /\ UNCHANGED <<pipeline, harness, component, fIn>>

UnitNext ==
    \/ ApplyNormalizeName
    \/ ApplyParseRaceResults
    \/ ApplyParseHtmlRacePosition
    \/ ApplyParseRaces

UnitSpec == UnitInit /\ [][UnitNext]_vars

----------------------------------------------------------------------------
(* Properties of the pure helpers, checked under UnitSpec *)

Returned(fn) == fpc = "done" /\ fIn.fn = fn

\* the name with every letter in lower case and without its accent, and every
\* run of white space and punctuation as one space
PlainChar(c) ==
    CASE c \in {"E", "e_acute", "E_ACUTE"} -> "e"
      [] c = "R" -> "r"
      [] c = "-" -> " "
      [] OTHER -> c

PlainName(s) == CollapseSpaces([i \in DOMAIN s |-> PlainChar(s[i])])

\* C11: normalizeName is case- and diacritic-insensitive: a name normalizes
\* to the same string as the name that differs from it only in letter case,
\* in diacritics on letters (at any position) and in the amount of white
\* space and punctuation between words.
C11_CaseAndDiacriticInsensitive ==
    Returned("normalizeName") => fOut = normalizeName(PlainName(fIn.value.v))

\* C12: normalizeName is idempotent: normalizing a normalized name gives the
\* same string.
C12_NormalizeNameIdempotent ==
    Returned("normalizeName") => normalizeName(fOut) = fOut

C12_Witness ==
    /\ Returned("normalizeName")
    /\ fIn.value.v = <<"R", "E_ACUTE", "-">>
    /\ fOut = <<"r", "e">>

\* C13: a bare number n at index i of the race-result list is the
\* DriverRaceResult {raceIndex: i, position: n, points: null, raceId: the id
\* of races[i]}, with raceId null when there is no races[i].
C13_BareNumberIsPosition ==
    Returned("parseRaceResults") /\ IsArray(fIn.value) /\ ~fOut.threw =>
        \A i \in DOMAIN fIn.value.v :
            fIn.value.v[i].t = "number" =>
                fOut.val[i] =
                    [raceIndex |-> i - 1,
                     position |-> fIn.value.v[i],
                     points |-> Null,
                     raceId |-> IF i \in DOMAIN fIn.races
                                THEN Num(fIn.races[i].id) ELSE Null]

\* the list [{...}, {...}, 5] with three races
C13_Witness ==
    /\ Returned("parseRaceResults")
    /\ IsArray(fIn.value)
    /\ ~fOut.threw
    /\ Len(fIn.value.v) = 3
    /\ fIn.value.v[1].t = "object"
    /\ fIn.value.v[2].t = "object"
    /\ fIn.value.v[3] = Num(5)
    /\ Len(fIn.races) = 3
    /\ fOut.val[3] = [raceIndex |-> 2, position |-> Num(5), points |-> Null, raceId |-> Num(7)]

\* the cell text without zero-width characters and surrounding white space
CellWithoutZeroWidth(s) == Trim(SelectSeq(s, LAMBDA c : c # "ZWSP"))

\* C15: parseHtmlRacePosition returns null for every cell text that, once
\* zero-width characters and surrounding white space are removed, is empty,
\* '-' or an em dash.
C15_EmptyOrDashIsNull ==
    Returned("parseHtmlRacePosition")
    /\ CellWithoutZeroWidth(fIn.value.v) \in {<<>>, <<"-">>, <<"EM_DASH">>}
        => fOut = Null

C15_Witness ==
    /\ Returned("parseHtmlRacePosition")
    /\ fIn.value.v = <<" ", "ZWSP", "EM_DASH">>
    /\ fOut = Null

\* a string with a character that is no white space
NonBlank(x) == x.t = "string" /\ Trim(x.v) # <<>>

\* C22: the displayName of a normalized race is display_name when that is a
\* non-blank string, otherwise race_name when that is a non-blank string, and
\* "Race" only when both are blank or absent.
C22_RaceLabelPreference ==
    Returned("parseRaces") /\ ~fOut.threw =>
        \A i \in DOMAIN fIn.value.v :
            LET d == Get(fIn.value.v[i], "display_name")
                r == Get(fIn.value.v[i], "race_name")
            IN fOut.val[i].displayName =
                    IF NonBlank(d) THEN d.v ELSE IF NonBlank(r) THEN r.v ELSE RaceLabel

\* the cleaned text starts with an optionally signed integer
StartsWithInteger(s) ==
    /\ s # <<>>
    /\ \/ IsDigit(s[1])
       \/ s[1] = "-" /\ Len(s) >= 2 /\ IsDigit(s[2])

\* C23 as stated: on every text that is not empty, a dash or an em dash once
\* zero-width characters are removed, parseHtmlRacePosition returns what
\* parseHtmlNumeric returns: the first signed integer anywhere in the text.
C23_AgreesWithParseHtmlNumeric ==
    Returned("parseHtmlRacePosition")
    /\ CellWithoutZeroWidth(fIn.value.v) \notin {<<>>, <<"-">>, <<"EM_DASH">>}
        => fOut = parseHtmlNumeric(fIn.value)

\* C23 amended: parseHtmlRacePosition returns the signed integer the cleaned
\* text (zero-width characters removed, trimmed) starts with, which is what
\* parseHtmlNumeric returns for the cleaned text, and null when the cleaned
\* text does not start with one, wherever else it holds a number.
C23_LeadingIntegerOnly ==
    Returned("parseHtmlRacePosition") =>
        LET cleaned == CellWithoutZeroWidth(fIn.value.v) IN
        IF StartsWithInteger(cleaned)
        THEN fOut # Null /\ fOut = parseHtmlNumeric(Str(cleaned))
        ELSE fOut = Null

\* "P3" has a number and is no position
C23_Witness ==
    /\ Returned("parseHtmlRacePosition")
    /\ fIn.value.v = <<"P", "3">>
    /\ parseHtmlNumeric(fIn.value) = Num(3)
    /\ fOut = Null

HasNone(item, keys) == \A k \in keys : IsNullish(Get(item, k))

\* C24: unknown is never normalized to zero: an object race-result item with
\* none of position, position_cache and rank has position null, and one with
\* none of the points fields has points null.
C24_UnknownIsNeverZero ==
    Returned("parseRaceResults") /\ IsArray(fIn.value) /\ ~fOut.threw =>
        \A i \in DOMAIN fIn.value.v :
            fIn.value.v[i].t = "object" =>
                /\ HasNone(fIn.value.v[i], {"position", "position_cache", "rank"})
                        => fOut.val[i].position = Null
                /\ HasNone(fIn.value.v[i],
                           {"points", "championship_points", "score", "championship_score"})
                        => fOut.val[i].points = Null

----------------------------------------------------------------------------
(* ChampionshipStandingsComponent: the caller of getChampionshipStandings.  *)
(* Its fields and signals are the fields of cmp; calls holds the            *)
(* loadStandings calls that have a request in flight, and the latest call,  *)
(* each with its locals and the state of its two requests.  A request is    *)
(* answered in its own task, and the code after the await runs in           *)
(* microtasks of that task, so the answer and the code it resumes are one   *)
(* step.  The export preview only redraws a canvas and is left out.         *)

cacheTtlMs == 60000

MaxLoads == 3
MaxTicks == 2

ChampionshipIds == {1, 2}

\* state of a request or promise
Pending == [state |-> "pending"]
Resolved(v) == [state |-> "resolved", value |-> v]
Rejected(e) == [state |-> "rejected", error |-> e]
NoRequest == [state |-> "none"]

\* what getChampionshipById resolves with
Details(championshipId) == [t |-> "details", id |-> championshipId]

\* an entry of standingsCache
CachedStandingsData(details, entries, races, fetchedAt) ==
    [t |-> "cache", details |-> details, entries |-> entries, races |-> races,
     fetchedAt |-> fetchedAt]

\* faulty variant of isCacheExpired: an entry expires at its time to live
isCacheExpired_AtTimeToLive(cache, clock) == clock - cache.fetchedAt >= cacheTtlMs

\* the errors of the model carry no body
extractErrorReason(error) == Null

RateLimitReason ==
    IF extractErrorReason(HttpError(429)) = Null THEN <<"Minute rate limit exceeded">>
    ELSE extractErrorReason(HttpError(429)).v

toErrorMessage(error) ==
    IF error.name = "HttpErrorResponse"
    THEN CASE error.status = 0 -> <<"Unable to reach The SimGrid API.">>
           [] error.status = 200 -> <<"API returned HTML instead of JSON.">>
           [] error.status = 429 ->
                RateLimitReason \o <<". Please wait about 1 minute and try again.">>
           [] OTHER -> <<"API request failed (">> \o NatToString(error.status) \o <<").">>
    ELSE <<"Failed to load standings data.">>

toRateLimitCacheMessage(error, cachedAt) ==
    RateLimitReason \o <<". Showing cached data from ">> \o NatToString(cachedAt)
        \o <<". Try Refresh in about 1 minute.">>

isRateLimitError(error) == error.name = "HttpErrorResponse" /\ error.status = 429

isCacheExpired(cache, clock) == clock - cache.fetchedAt > cacheTtlMs

\* the component once its constructor has returned: loadChampionships has
\* run up to its await
ComponentInit ==
    /\ cmp = [standingsCache |-> [id \in ChampionshipIds |-> Undef],
              standingsLoadToken |-> 0,
              championshipsLoadToken |-> 1,
              championshipsRequest |-> Pending,
              championships |-> <<>>,
              selectedChampionshipId |-> Null,
              selectedChampionship |-> Null,
              standings |-> <<>>,
              races |-> <<>>,
              loadingChampionships |-> TRUE,
              loadingStandings |-> FALSE,
              errorMessage |-> <<>>,
              infoMessage |-> <<>>,
              lastUpdated |-> Null]
    /\ calls = <<>>
    /\ now = 0
    /\ ticks = 0

LoadInit == PipelineIdle /\ HarnessIdle /\ UnitIdle /\ ComponentInit

\* the finally block of loadChampionships, once the loadStandings call it
\* awaits has returned
AfterAwaited(c, awaited) == IF awaited THEN [c EXCEPT !.loadingChampionships = FALSE] ELSE c

\* a request of the call is in flight
InFlight(call) == call.details.state = "pending" \/ call.standingsData.state = "pending"

\* a call that a later call has superseded, or that has returned with all
\* its requests answered, reads its cached entry no more; a superseded call
\* reads no error either
Unread(result) == IF result.state = "rejected" THEN [state |-> "rejected"] ELSE result

Finished(call, latest) ==
    IF call.token # latest
    THEN [call EXCEPT !.cached = Undef,
                      !.details = Unread(call.details),
                      !.standingsData = Unread(call.standingsData)]
    ELSE IF call.settled /\ ~InFlight(call)
    THEN [call EXCEPT !.cached = Undef]
    ELSE call

\* the calls to keep track of, when latest is the token of the latest one
RECURSIVE Live(_, _)
Live(log, latest) ==
    IF log = <<>> THEN <<>>
    ELSE LET call == Finished(log[1], latest)
             rest == Live(Tail(log), latest)
         IN IF InFlight(call) \/ call.token = latest THEN <<call>> \o rest ELSE rest

\* loadStandings(championshipId, force) up to its return or its await, called
\* with the component c and the log of calls; awaited tells whether
\* loadChampionships awaits the call.  The result is the component and log
\* after it.
loadStandings(c, log, championshipId, force, awaited, clock) ==
    LET token == c.standingsLoadToken + 1
        cached == c.standingsCache[championshipId]
        call == [token |-> token, championshipId |-> championshipId, force |-> force,
                 cached |-> cached, awaited |-> awaited]
    IN IF ~force /\ cached # Undef /\ ~isCacheExpired(cached, clock)
       THEN [cmp |-> AfterAwaited(
                        [c EXCEPT !.standingsLoadToken = token,
                                  !.errorMessage = <<>>,
                                  !.infoMessage = <<>>,
                                  !.selectedChampionship = cached.details,
                                  !.standings = cached.entries,
                                  !.races = cached.races,
                                  !.lastUpdated = Num(cached.fetchedAt)], awaited),
             calls |-> Live(Append(log, [token |-> token, championshipId |-> championshipId,
                                         force |-> force, cached |-> cached,
                                         awaited |-> awaited, details |-> NoRequest,
                                         standingsData |-> NoRequest, settled |-> TRUE]),
                            token)]
       ELSE [cmp |-> [c EXCEPT !.standingsLoadToken = token,
                               !.loadingStandings = TRUE,
                               !.errorMessage = <<>>,
                               !.infoMessage = <<>>],
             calls |-> Live(Append(log, [token |-> token, championshipId |-> championshipId,
                                         force |-> force, cached |-> cached,
                                         awaited |-> awaited,
                                         details |-> IF cached # Undef
                                                     THEN Resolved(cached.details)
                                                     ELSE Pending,
                                         standingsData |-> Pending, settled |-> FALSE]),
                            token)]

\* faulty variant of LoadResolved: the token is not compared after the await
LoadResolved_NoTokenTest(c, call, details, standingsData, clock) ==
    [c EXCEPT !.selectedChampionship = details,
              !.standings = standingsData.entries,
              !.races = standingsData.races,
              !.lastUpdated = Num(clock),
              !.standingsCache[call.championshipId] =
                    CachedStandingsData(details, standingsData.entries,
                                        standingsData.races, clock),
              !.loadingStandings = FALSE]

\* loadStandings after the await has resolved: the rest of the try block and
\* the finally block
LoadResolved(c, call, details, standingsData, clock) ==
    IF call.token # c.standingsLoadToken THEN c
    ELSE [c EXCEPT !.selectedChampionship = details,
                   !.standings = standingsData.entries,
                   !.races = standingsData.races,
                   !.lastUpdated = Num(clock),
                   !.standingsCache[call.championshipId] =
                        CachedStandingsData(details, standingsData.entries,
                                            standingsData.races, clock),
                   !.loadingStandings = FALSE]

\* faulty variant of LoadRejected: the cached data is shown for every error
LoadRejected_CacheForEveryError(c, call, error) ==
    IF call.token # c.standingsLoadToken THEN c
    ELSE IF call.cached # Undef
    THEN [c EXCEPT !.selectedChampionship = call.cached.details,
                   !.standings = call.cached.entries,
                   !.races = call.cached.races,
                   !.lastUpdated = Num(call.cached.fetchedAt),
                   !.errorMessage = <<>>,
                   !.infoMessage = toRateLimitCacheMessage(error, call.cached.fetchedAt),
                   !.loadingStandings = FALSE]
    ELSE [c EXCEPT !.errorMessage = toErrorMessage(error),
                   !.selectedChampionship = Null,
                   !.standings = <<>>,
                   !.races = <<>>,
                   !.loadingStandings = FALSE]

\* loadStandings after the await has rejected: the catch block and the
\* finally block
LoadRejected(c, call, error) ==
    IF call.token # c.standingsLoadToken THEN c
    ELSE IF isRateLimitError(error) /\ call.cached # Undef
    THEN [c EXCEPT !.selectedChampionship = call.cached.details,
                   !.standings = call.cached.entries,
                   !.races = call.cached.races,
                   !.lastUpdated = Num(call.cached.fetchedAt),
                   !.errorMessage = <<>>,
                   !.infoMessage = toRateLimitCacheMessage(error, call.cached.fetchedAt),
                   !.loadingStandings = FALSE]
    ELSE [c EXCEPT !.errorMessage = toErrorMessage(error),
                   !.selectedChampionship = Null,
                   !.standings = <<>>,
                   !.races = <<>>,
                   !.loadingStandings = FALSE]

\* what the requests of the component are answered with
\* championship 1 has one entrant and a race, championship 2 two entrants
StandingsPayload(championshipId) ==
    IF championshipId = 1
    THEN Arr(<<Arr(<<MergeRawAl>>), Arr(<<RawRace1>>)>>)
    ELSE Arr(<<Arr(<<MergeRawAl, MergeRawBo>>), Arr(<<>>)>>)

\* what getChampionshipStandings emits for each championship
StandingsData ==
    [championshipId \in ChampionshipIds |->
        parseStandings(StandingsPayload(championshipId)).val]

StandingsResults(championshipId) ==
    {Resolved(StandingsData[championshipId]),
     Rejected(HttpError(429)), Rejected(HttpError(500))}

\* getChampionshipById is answered with the details: the failures of a load
\* are those of its standings request
DetailsResults(championshipId) == {Resolved(Details(championshipId))}

ChampionshipsResults ==
    {Resolved(<<>>), Resolved(<<[id |-> 1], [id |-> 2]>>), Rejected(HttpError(429))}

\* [...list].sort((a, b) => b.id - a.id), a stable sort
RECURSIVE InsertChampionship(_, _)
InsertChampionship(sorted, x) ==
    IF sorted = <<>> THEN <<x>>
    ELSE IF x.id - sorted[Len(sorted)].id <= 0 THEN Append(sorted, x)
    ELSE Append(InsertChampionship(SubSeq(sorted, 1, Len(sorted) - 1), x), sorted[Len(sorted)])

RECURSIVE SortChampionships(_)
SortChampionships(list) ==
    IF list = <<>> THEN <<>>
    ELSE InsertChampionship(SortChampionships(SubSeq(list, 1, Len(list) - 1)), list[Len(list)])

\* another call of loadStandings can start
LoadsLeft == cmp.standingsLoadToken < MaxLoads

\* the championships request of loadChampionships is answered: the code after
\* its await, up to the return or to the await of loadStandings.  The
\* constructor's is the only call, so its token is the latest.
ChampionshipsRespond ==
    /\ cmp.championshipsRequest = Pending
    /\ \E result \in ChampionshipsResults :
          LET c == [cmp EXCEPT !.championshipsRequest = [state |-> result.state]] IN
          IF result.state = "rejected"
          THEN /\ cmp' = [c EXCEPT !.errorMessage = toErrorMessage(result.error),
                                   !.championships = <<>>,
                                   !.selectedChampionship = Null,
                                   !.standings = <<>>,
                                   !.races = <<>>,
                                   !.loadingChampionships = FALSE]
               /\ calls' = calls
          ELSE LET sorted == SortChampionships(result.value) IN
               IF Len(sorted) = 0
               THEN /\ cmp' = [c EXCEPT !.championships = sorted,
                                        !.selectedChampionshipId = Null,
                                        !.selectedChampionship = Null,
                                        !.standings = <<>>,
                                        !.races = <<>>,
                                        !.loadingChampionships = FALSE]
                    /\ calls' = calls
               ELSE LET currentSelectedId == cmp.selectedChampionshipId
                        selectedId ==
                            IF currentSelectedId # Null
                               /\ \E i \in DOMAIN sorted : sorted[i].id = currentSelectedId.v
                            THEN currentSelectedId.v
                            ELSE sorted[1].id
                        after ==
                            loadStandings([c EXCEPT !.championships = sorted,
                                                    !.selectedChampionshipId = Num(selectedId)],
                                          calls, selectedId, FALSE, TRUE, now)
                    IN LoadsLeft /\ cmp' = after.cmp /\ calls' = after.calls
    /\ UNCHANGED <<pipeline, harness, unit, now, ticks>>

\* selectChampionship(championshipId)
SelectChampionship ==
    \E championshipId \in ChampionshipIds :
        IF cmp.selectedChampionshipId = Num(championshipId) /\ Len(cmp.standings) > 0
        THEN UNCHANGED vars
        ELSE /\ LoadsLeft
             /\ LET after ==
                        loadStandings([cmp EXCEPT !.selectedChampionshipId = Num(championshipId)],
                                      calls, championshipId, FALSE, FALSE, now)
                IN cmp' = after.cmp /\ calls' = after.calls
             /\ UNCHANGED <<pipeline, harness, unit, now, ticks>>

\* refreshSelectedChampionship()
RefreshSelectedChampionship ==
    IF cmp.selectedChampionshipId = Null
    THEN UNCHANGED vars
    ELSE /\ LoadsLeft
         /\ LET after == loadStandings(cmp, calls, cmp.selectedChampionshipId.v,
                                       TRUE, FALSE, now)
            IN cmp' = after.cmp /\ calls' = after.calls
         /\ UNCHANGED <<pipeline, harness, unit, now, ticks>>

\* the standings request of call i is answered; Promise.all settles when
\* this rejects, or resolves and the details are there
StandingsRespond ==
    /\ \E i \in DOMAIN calls : \E result \in StandingsResults(calls[i].championshipId) :
          /\ calls[i].standingsData = Pending
          /\ LET call == calls[i]
                 settles ==
                    ~call.settled
                    /\ (result.state = "rejected" \/ call.details.state = "resolved")
             IN /\ cmp' =
                      IF ~settles THEN cmp
                      ELSE AfterAwaited(
                              IF result.state = "rejected"
                              THEN LoadRejected(cmp, call, result.error)
                              ELSE LoadResolved(cmp, call, call.details.value,
                                                result.value, now),
                              call.awaited)
                /\ calls' = Live([calls EXCEPT ![i].standingsData = result,
                                               ![i].settled = call.settled \/ settles],
                                  cmp.standingsLoadToken)
    /\ UNCHANGED <<pipeline, harness, unit, now, ticks>>

\* the details request of call i is answered
DetailsRespond ==
    /\ \E i \in DOMAIN calls : \E result \in DetailsResults(calls[i].championshipId) :
          /\ calls[i].details = Pending
          /\ LET call == calls[i]
                 settles ==
                    ~call.settled
                    /\ (result.state = "rejected" \/ call.standingsData.state = "resolved")
             IN /\ cmp' =
                      IF ~settles THEN cmp
                      ELSE AfterAwaited(
                              IF result.state = "rejected"
                              THEN LoadRejected(cmp, call, result.error)
                              ELSE LoadResolved(cmp, call, result.value,
                                                call.standingsData.value, now),
                              call.awaited)
                /\ calls' = Live([calls EXCEPT ![i].details = result,
                                               ![i].settled = call.settled \/ settles],
                                  cmp.standingsLoadToken)
    /\ UNCHANGED <<pipeline, harness, unit, now, ticks>>

\* time passes: the time to live of a cache entry.  The clock is read to
\* stamp a cache entry and to tell its age, so time counts from the first
\* entry cached.
AdvanceClock ==
    /\ ticks < MaxTicks
    /\ \E id \in ChampionshipIds : cmp.standingsCache[id] # Undef
    /\ now' = now + cacheTtlMs
    /\ ticks' = ticks + 1
    /\ UNCHANGED <<pipeline, harness, unit, cmp, calls>>

LoadNext ==
    \/ ChampionshipsRespond
    \/ SelectChampionship
    \/ RefreshSelectedChampionship
    \/ StandingsRespond
    \/ DetailsRespond
    \/ AdvanceClock

LoadSpec == LoadInit /\ [][LoadNext]_vars

----------------------------------------------------------------------------
(* Claims about the component.                                              *)

\* the latest call of loadStandings in a log
LatestCall(log) == log[Len(log)]

\* what the page displays of a load, and the cache
Displayed(c) ==
    <<c.selectedChampionship, c.standings, c.races, c.lastUpdated,
      c.errorMessage, c.infoMessage, c.standingsCache>>

\* the requests of the call with the token that are in flight
RequestsInFlight(log, token) ==
    {<<i, r>> \in (DOMAIN log) \X {"details", "standingsData"} :
        /\ log[i].token = token
        /\ IF r = "details" THEN log[i].details.state = "pending"
           ELSE log[i].standingsData.state = "pending"}

\* C25: a call of loadStandings that is not forced, for a championship whose
\* cache entry is at most 60 s old, issues no request and displays the
\* cached details, entries, races and fetchedAt; any other call issues the
\* standings request.
C25_FreshCacheOrRequest ==
    [][cmp'.standingsLoadToken # cmp.standingsLoadToken =>
          LET call == LatestCall(calls')
              entry == cmp.standingsCache[call.championshipId]
          IN IF ~call.force /\ entry # Undef /\ now - entry.fetchedAt <= 60 * 1000
             THEN /\ RequestsInFlight(calls', call.token) = {}
                  /\ call.details.state = "none"
                  /\ call.standingsData.state = "none"
                  /\ cmp'.selectedChampionship = entry.details
                  /\ cmp'.standings = entry.entries
                  /\ cmp'.races = entry.races
                  /\ cmp'.lastUpdated = Num(entry.fetchedAt)
             ELSE call.standingsData.state = "pending"]_vars

\* a call was answered from a cache entry that is exactly 60 s old
C25_Witness ==
    /\ calls # <<>>
    /\ LatestCall(calls).standingsData.state = "none"
    /\ cmp.lastUpdated # Null
    /\ now - cmp.lastUpdated.v = 60 * 1000

\* C26: when the await of the latest call rejects with status 429 and the
\* championship has a cache entry, the cached entries and races are
\* displayed with an info message and no error message, and the cache is
\* left alone; when it rejects otherwise, standings and races are cleared
\* and the error message is set.
C26_RateLimitFallsBackToCache ==
    [][\A i \in DOMAIN calls : \A j \in DOMAIN calls' :
          (/\ calls[i].token = cmp.standingsLoadToken
           /\ calls'[j].token = calls[i].token
           /\ ~calls[i].settled
           /\ calls'[j].settled
           /\ calls'[j].standingsData.state = "rejected")
          => LET entry == cmp.standingsCache[calls[i].championshipId]
                 error == calls'[j].standingsData.error
             IN IF error.name = "HttpErrorResponse" /\ error.status = 429 /\ entry # Undef
                THEN /\ cmp'.standings = entry.entries
                     /\ cmp'.races = entry.races
                     /\ cmp'.infoMessage # <<>>
                     /\ cmp'.errorMessage = <<>>
                     /\ cmp'.standingsCache = cmp.standingsCache
                ELSE /\ cmp'.standings = <<>>
                     /\ cmp'.races = <<>>
                     /\ cmp'.errorMessage # <<>>]_vars

\* the latest call was rejected with 429 and an expired entry is displayed
C26_Witness ==
    /\ calls # <<>>
    /\ LatestCall(calls).settled
    /\ LatestCall(calls).standingsData.state = "rejected"
    /\ cmp.infoMessage # <<>>
    /\ cmp.standings # <<>>
    /\ now - cmp.lastUpdated.v > 60 * 1000

\* C27: an answer to a call that is not the latest changes nothing of what
\* is displayed (championship, standings, races, lastUpdated, messages) and
\* nothing of the cache.  Without a new call, the record of a superseded
\* call changes or goes only when one of its requests is answered.
C27_SupersededAnswerChangesNothing ==
    [][(/\ cmp'.standingsLoadToken = cmp.standingsLoadToken
        /\ \E i \in DOMAIN calls :
              /\ calls[i].token # cmp.standingsLoadToken
              /\ \A j \in DOMAIN calls' : calls'[j] # calls[i])
       => Displayed(cmp') = Displayed(cmp)]_vars

\* a superseded call has had its standings, and the latest call displays its own
C27_Witness ==
    \E i \in DOMAIN calls :
        /\ calls[i].token # cmp.standingsLoadToken
        /\ calls[i].standingsData.state = "resolved"
        /\ LatestCall(calls).settled
        /\ cmp.selectedChampionship # Null
        /\ cmp.selectedChampionship.id # calls[i].championshipId

\* C28: once no request of any loadStandings call is in flight,
\* loadingStandings is false.
C28_LoadingEndsWithRequests ==
    (\A i \in DOMAIN calls : ~InFlight(calls[i])) => ~cmp.loadingStandings

====
